---------------------------- MODULE Spec2Model ----------------------------
(***************************************************************************)
(* Stock reconciliation of the retail dashboard: the name normalizer, the  *)
(* three-tier product matcher, the useFirebaseData hook (local state, the  *)
(* document store, the recalculation effect and its timers) and the        *)
(* StockModule views that read the reconciliation.                         *)
(*                                                                         *)
(* Strings are sequences of one-character strings.  Dates are integer      *)
(* timestamps, TicksPerDay ticks to a calendar day.                        *)
(***************************************************************************)
EXTENDS Integers, Sequences, FiniteSets, TLC

VARIABLES
    loading,        \* useState(true): the initial load has not finished
    registerSales,  \* useState<RegisterSale[]>
    products,       \* useState<Product[]>
    dbSales,        \* the store's register_sales collection (a set of documents)
    dbProducts,     \* the store's products collection (a set of documents)
    cache,          \* the product-sales cache of calculateStockFinal
    effectDeps,     \* [registerSales.length, products.length] the effects last ran for
    timers,         \* pending setTimeout(() => recalculateProductQuantities(), 100) closures
    rowView,        \* what the last rendered row computed
    failures,       \* how many store calls have failed so far
    ops,            \* how many operations the user has started so far
    called,         \* which pure function the function-level specifications applied
    argName,        \* its name argument
    argCategory,    \* its category argument
    argCatalog,     \* its catalog argument
    ret             \* its result

hookVars == <<loading, registerSales, products, dbSales, dbProducts, cache,
              effectDeps, timers, rowView, failures, ops>>
funVars == <<called, argName, argCategory, argCatalog, ret>>
vars == <<loading, registerSales, products, dbSales, dbProducts, cache,
          effectDeps, timers, rowView, failures, ops, called, argName, argCategory, argCatalog, ret>>

\* null and undefined
NULL == [kind |-> "null"]

-----------------------------------------------------------------------------
(* Characters and the String methods the code uses                         *)

UpperCase == {"A", "B", "C", "D", "X", "Y", "Z"}
Letters == {"a", "b", "c", "d", "e", "f", "g", "s", "x", "y", "z"} \cup UpperCase
Digits == {"0", "1", "2", "5"}

\* \s of the regular expressions and of trim()
IsSpace(c) == c \in {" ", "\t"}

\* \w of the regular expressions
IsWord(c) == c \in Letters \cup Digits \cup {"_"}

LowerChar(c) ==
    CASE c = "A" -> "a" [] c = "B" -> "b" [] c = "C" -> "c" [] c = "D" -> "d"
      [] c = "X" -> "x" [] c = "Y" -> "y" [] c = "Z" -> "z" [] OTHER -> c

toLowerCase(s) == [i \in 1..Len(s) |-> LowerChar(s[i])]

SetMin(S) == CHOOSE x \in S : \A y \in S : x <= y
SetMax(S) == CHOOSE x \in S : \A y \in S : x >= y

trim(s) ==
    LET idx == {i \in 1..Len(s) : ~IsSpace(s[i])}
    IN  IF idx = {} THEN <<>> ELSE SubSeq(s, SetMin(idx), SetMax(idx))

\* b.includes(a)
includes(b, a) ==
    \E i \in 1..(Len(b) + 1) :
        i + Len(a) - 1 <= Len(b) /\ SubSeq(b, i, i + Len(a) - 1) = a

\* s.split(' ')
RECURSIVE splitFrom(_, _, _)
splitFrom(s, i, cur) ==
    IF i > Len(s) THEN <<cur>>
    ELSE IF s[i] = " " THEN <<cur>> \o splitFrom(s, i + 1, <<>>)
    ELSE splitFrom(s, i + 1, Append(cur, s[i]))

split(s) == splitFrom(s, 1, <<>>)

-----------------------------------------------------------------------------
(* normalizeProductName, one definition per call of its chain              *)

\* .replace(/\s+/g, ' ')
RECURSIVE collapseFrom(_, _)
collapseFrom(s, i) ==
    IF i > Len(s) THEN <<>>
    ELSE IF IsSpace(s[i])
         THEN (IF i > 1 /\ IsSpace(s[i - 1]) THEN <<>> ELSE <<" ">>) \o collapseFrom(s, i + 1)
         ELSE <<s[i]>> \o collapseFrom(s, i + 1)

collapseSpaces(s) == collapseFrom(s, 1)

\* .replace(/[^\w\s]/g, '')
stripSpecial(s) == SelectSeq(s, LAMBDA c : IsWord(c) \/ IsSpace(c))

\* /\b(100s?|20s?|25s?)\b/g : the alternatives in their order
SuffixTokens == << <<"1", "0", "0">>, <<"2", "0">>, <<"2", "5">> >>

WordAt(s, k) == k >= 1 /\ k <= Len(s) /\ IsWord(s[k])

\* \b between s[k-1] and s[k]
Boundary(s, k) == WordAt(s, k - 1) # WordAt(s, k)

\* the length matched by  t s? \b  at position i (0: no match); s? is greedy
TokenLenAt(s, i, t) ==
    IF ~(i + Len(t) - 1 <= Len(s) /\ SubSeq(s, i, i + Len(t) - 1) = t) THEN 0
    ELSE LET e == i + Len(t)
         IN  IF e <= Len(s) /\ s[e] = "s" /\ Boundary(s, e + 1) THEN Len(t) + 1
             ELSE IF Boundary(s, e) THEN Len(t)
             ELSE 0

\* the first alternative that matches decides the length
FirstMatch(lens) ==
    IF \A k \in DOMAIN lens : lens[k] = 0 THEN 0
    ELSE lens[SetMin({k \in DOMAIN lens : lens[k] > 0})]

SuffixLenAt(s, i) ==
    IF ~Boundary(s, i) THEN 0
    ELSE FirstMatch([k \in DOMAIN SuffixTokens |-> TokenLenAt(s, i, SuffixTokens[k])])

RECURSIVE removeFrom(_, _)
RECURSIVE removeMatch(_, _, _)

\* a match of n characters at i is dropped, and the scan resumes after it
removeMatch(s, i, n) ==
    IF n > 0 THEN removeFrom(s, i + n) ELSE <<s[i]>> \o removeFrom(s, i + 1)

removeFrom(s, i) ==
    IF i > Len(s) THEN <<>> ELSE removeMatch(s, i, SuffixLenAt(s, i))

removeSuffixes(s) == removeFrom(s, 1)

normalizeProductName(name) ==
    trim(removeSuffixes(stripSpecial(collapseSpaces(trim(toLowerCase(name))))))

-----------------------------------------------------------------------------
(* findMatchingProduct                                                     *)

\* category.toLowerCase().trim()
normalizeCategory(category) == trim(toLowerCase(category))

\* .split(' ').filter(word => word.length > 2)
longWords(s) == SelectSeq(split(s), LAMBDA w : Len(w) > 2)

\* a threshold rounded down
floorSeventyPercent(n) == (7 * n) \div 10

\* Math.ceil(n * 0.7)
ceilSeventyPercent(n) == (7 * n + 9) \div 10

\* tier 1: the predicate of the first products.find
ExactMatch(saleName, saleCategory, product) ==
    /\ normalizeProductName(product.name) = normalizeProductName(saleName)
    /\ normalizeCategory(product.category) = normalizeCategory(saleCategory)

\* a.includes(b) || b.includes(a)
includesEitherWay(a, b) == includes(a, b) \/ includes(b, a)

\* tier 2: the predicate of the second products.find
PartialMatch(saleName, saleCategory, product) ==
    /\ normalizeCategory(product.category) = normalizeCategory(saleCategory)
    /\ includesEitherWay(normalizeProductName(product.name), normalizeProductName(saleName))

\* matchingWords.length >= Math.ceil(saleWords.length * 0.7)
enoughWords(saleWords, productWords) ==
    Len(SelectSeq(saleWords, LAMBDA saleWord :
            \E k \in DOMAIN productWords : includesEitherWay(productWords[k], saleWord)))
        >= ceilSeventyPercent(Len(saleWords))

\* tier 3: the predicate of the third products.find
FuzzyMatch(saleName, saleCategory, product) ==
    IF normalizeCategory(product.category) # normalizeCategory(saleCategory) THEN FALSE
    ELSE enoughWords(longWords(normalizeProductName(saleName)),
                     longWords(normalizeProductName(product.name)))

\* Array.prototype.find over the indices satisfying a tier
FirstOf(prods, hits) == IF hits = {} THEN NULL ELSE prods[SetMin(hits)]

\* if (match) return match, tier after tier
firstTier(prods, exact, partial, fuzzy) ==
    IF exact # {} THEN FirstOf(prods, exact)
    ELSE IF partial # {} THEN FirstOf(prods, partial)
    ELSE FirstOf(prods, fuzzy)

\* a single pass that takes the first product satisfying any tier
findFirstAnyTier(saleName, saleCategory, prods) ==
    FirstOf(prods, {i \in DOMAIN prods :
        \/ ExactMatch(saleName, saleCategory, prods[i])
        \/ PartialMatch(saleName, saleCategory, prods[i])
        \/ FuzzyMatch(saleName, saleCategory, prods[i])})

\* the containment tier without its category test
findIgnoringPartialCategory(saleName, saleCategory, prods) ==
    firstTier(prods,
        {i \in DOMAIN prods : ExactMatch(saleName, saleCategory, prods[i])},
        {i \in DOMAIN prods : includesEitherWay(normalizeProductName(prods[i].name),
                                                normalizeProductName(saleName))},
        {i \in DOMAIN prods : FuzzyMatch(saleName, saleCategory, prods[i])})

findMatchingProduct(saleName, saleCategory, prods) ==
    firstTier(prods,
        {i \in DOMAIN prods : ExactMatch(saleName, saleCategory, prods[i])},
        {i \in DOMAIN prods : PartialMatch(saleName, saleCategory, prods[i])},
        {i \in DOMAIN prods : FuzzyMatch(saleName, saleCategory, prods[i])})

-----------------------------------------------------------------------------
(* Bounds and input sets of the hook model                                 *)

MaxSales == 2       \* sales held locally, and documents in register_sales
MaxProducts == 2    \* products held locally, and documents in products
MaxImport == 1      \* rows of one addRegisterSales / addProducts call
MaxFailures == 1    \* store calls that fail in one run
MaxOps == 3         \* operations the user starts in one run
MaxQty == 2         \* largest sale quantity and largest entered stock
MaxDay == 2         \* the calendar day used as initialStockDate
TicksPerDay == 2    \* timestamps per calendar day
MinStockInput == 1  \* the reorder threshold entered in the form

\* initialStockDate: undefined is <<>>, the day d is <<d>>
NoDate == <<>>

DayOf(date) == date \div TicksPerDay

NameA == <<"a", "b", "c">>
NameACaps == <<"A", "B", "C">>
CatC == <<"c">>
CatD == <<"d">>

SaleNames == {NameACaps}
SaleCategories == {CatC, CatD}
\* the last tick before MaxDay, its first tick and its last tick
SaleDates == {MaxDay * TicksPerDay - 1, MaxDay * TicksPerDay,
              MaxDay * TicksPerDay + TicksPerDay - 1}
ProductNames == {NameA}
ProductCategories == {CatC}
StockInputs == {0, MaxQty}
StockDates == {NoDate, <<MaxDay>>}

SaleInputs ==
    [product : SaleNames, category : SaleCategories, date : SaleDates,
     quantity : 1..MaxQty]

\* what generateMockSales may draw
MockInputs ==
    [product : SaleNames, category : SaleCategories, date : {MaxDay * TicksPerDay},
     quantity : {1}]

\* the draw matters only when the load falls back to the mock data
MockDraws(ok) == IF ok THEN {CHOOSE m \in MockInputs : TRUE} ELSE MockInputs

ProductInputs ==
    {[name |-> n, category |-> c, stock |-> k, initialStock |-> k,
      initialStockDate |-> d, minStock |-> MinStockInput] :
        n \in ProductNames, c \in ProductCategories, k \in StockInputs, d \in StockDates}

-----------------------------------------------------------------------------
(* Helpers over sequences, sets and records                                *)

Ids(s) == {s[i].id : i \in DOMAIN s}

Map(s, F(_)) == [i \in DOMAIN s |-> F(s[i])]

\* { ...r, ...u }
Spread(r, u) == [k \in DOMAIN r \cup DOMAIN u |-> IF k \in DOMAIN u THEN u[k] ELSE r[k]]

\* the elements of S in the order of the strict total order Before
\* the element that the pairs <<position, element>> put at position k
AtPosition(positions, k) == (CHOOSE p \in positions : p[1] = k)[2]

OrderSet(S, Before(_, _)) ==
    LET positions == {<<Cardinality({y \in S : Before(y, x)}) + 1, x>> : x \in S}
    IN  [k \in 1..Cardinality(S) |-> AtPosition(positions, k)]

\* the store calls of an operation that fail (a FALSE flag each) are within the budget
Failing(flags) ==
    LET n == Cardinality({k \in DOMAIN flags : ~flags[k]})
    IN  /\ failures + n <= MaxFailures
        /\ failures' = failures + n

\* one more operation of the user
Counted == ops < MaxOps /\ ops' = ops + 1

\* a || b on numbers
OrElse(a, b) == IF a = 0 THEN b ELSE a

OrderedChars == <<"\t", " ", "-", "0", "1", "2", "5", "A", "B", "C", "D", "X", "Y", "Z",
                  "_", "a", "b", "c", "d", "e", "f", "g", "s", "x", "y", "z">>
CharRank(c) == CHOOSE k \in DOMAIN OrderedChars : OrderedChars[k] = c

RECURSIVE StrLess(_, _)
StrLess(a, b) ==
    IF b = <<>> THEN FALSE
    ELSE IF a = <<>> THEN TRUE
    ELSE IF Head(a) # Head(b) THEN CharRank(Head(a)) < CharRank(Head(b))
    ELSE StrLess(Tail(a), Tail(b))

\* sales.reduce((sum, sale) => sum + sale.quantity, 0)
RECURSIVE SumQuantity(_)
SumQuantity(sales) ==
    IF sales = <<>> THEN 0 ELSE Head(sales).quantity + SumQuantity(Tail(sales))

-----------------------------------------------------------------------------
(* calculateStockFinal and its product-sales cache (utils/calculateStockFinal, *)
(* not among the sources: written from section 4.3 and 5 of the specification) *)

\* step 1: the transactions that match this product
MatchedSales(product, sales) ==
    SelectSeq(sales, LAMBDA sale :
        findMatchingProduct(sale.product, sale.category, <<product>>) # NULL)

\* step 2: on or after the day of initialStockDate
Attributable(product, sale) ==
    product.initialStockDate = NoDate \/ DayOf(sale.date) >= product.initialStockDate[1]

\* steps 3 and 4: the result from the two parts of the matched sales
stockResult(product, validSales, ignoredSales) ==
    [finalStock |-> product.initialStock - SumQuantity(validSales),
     validSales |-> validSales,
     ignoredSales |-> ignoredSales,
     hasInconsistentStock |->
        product.initialStock - SumQuantity(validSales) < 0 \/ ignoredSales # <<>>]

\* step 2 over the matched sales S
partition(product, S) ==
    stockResult(product,
                SelectSeq(S, LAMBDA sale : Attributable(product, sale)),
                SelectSeq(S, LAMBDA sale : ~Attributable(product, sale)))

\* a sale after the first instant of the snapshot day
AfterInstant(product, sale) ==
    product.initialStockDate = NoDate \/ sale.date > product.initialStockDate[1] * TicksPerDay

partitionStrict(product, S) ==
    stockResult(product,
                SelectSeq(S, LAMBDA sale : AfterInstant(product, sale)),
                SelectSeq(S, LAMBDA sale : ~AfterInstant(product, sale)))

\* a sale of a product with an initialStockDate, on or after its day
Dated(product, sale) ==
    product.initialStockDate # NoDate /\ DayOf(sale.date) >= product.initialStockDate[1]

partitionDated(product, S) ==
    stockResult(product,
                SelectSeq(S, LAMBDA sale : Dated(product, sale)),
                SelectSeq(S, LAMBDA sale : ~Dated(product, sale)))

negativeOnly(result) == [result EXCEPT !.hasInconsistentStock = result.finalStock < 0]

\* a reconciliation that compares timestamps with the first instant of the snapshot day
calculateStockFinalStrict(product, sales) ==
    partitionStrict(product, MatchedSales(product, sales))

\* a reconciliation that ignores every sale of a product without initialStockDate
calculateStockFinalDated(product, sales) ==
    partitionDated(product, MatchedSales(product, sales))

\* a reconciliation that flags only a negative final stock
calculateStockFinalNegativeOnly(product, sales) ==
    negativeOnly(partition(product, MatchedSales(product, sales)))

calculateStockFinal(product, sales) == partition(product, MatchedSales(product, sales))

\* the inputs of a reconciliation, which validate a cache entry
Fingerprint(product, sales) ==
    [id |-> product.id, name |-> product.name, category |-> product.category,
     initialStock |-> product.initialStock, initialStockDate |-> product.initialStockDate,
     sales |-> sales]

\* clearProductSalesCache()
EmptyCache == {}

CacheHits(c, product, sales) ==
    {e \in c : e.id = product.id /\ e.fp = Fingerprint(product, sales)}

\* calculateStockFinal(product, sales, true): the result
CachedResult(c, product, sales) ==
    IF CacheHits(c, product, sales) # {}
    THEN (CHOOSE e \in CacheHits(c, product, sales) : TRUE).result
    ELSE calculateStockFinal(product, sales)

\* calculateStockFinal(product, sales, true): the cache it leaves
CacheAfter(c, product, sales) ==
    IF CacheHits(c, product, sales) # {} THEN c
    ELSE {e \in c : e.id # product.id}
         \cup {[id |-> product.id, fp |-> Fingerprint(product, sales),
                result |-> calculateStockFinal(product, sales)]}

\* a caller sorting the list it was returned would reach the cache through a shared array
HeldShared(result, sorted) == [result EXCEPT !.validSales = sorted]

\* what an entry holds once a caller has sorted the validSales it was returned: the
\* calculation returns fresh output, so the entry keeps its own list
HeldAfterCallerSort(result, sorted) == result

\* an entry computed from other sales, or from other fields of its product, than the current ones
StaleEntry(e, prods, sales) ==
    \/ e.fp.sales # sales
    \/ \E i \in DOMAIN prods : prods[i].id = e.id /\ e.fp # Fingerprint(prods[i], sales)

\* calculateAggregatedStockStats(products, sales).inconsistentStock
inconsistentStockCount(prods, sales) ==
    Cardinality({i \in DOMAIN prods : calculateStockFinal(prods[i], sales).hasInconsistentStock})

-----------------------------------------------------------------------------
(* useFirebaseData: loading from the store                                 *)

\* query(salesCollection, orderBy('date', 'desc')) and the mapping of each document
storedSales(db) ==
    OrderSet(db, LAMBDA a, b : a.date > b.date \/ (a.date = b.date /\ a.id > b.id))

\* query(productsCollection, orderBy('name')) and the mapping of each document
storedProducts(db) ==
    Map(OrderSet(db, LAMBDA a, b : StrLess(a.name, b.name) \/ (a.name = b.name /\ a.id < b.id)),
        LAMBDA data : [data EXCEPT !.initialStock = OrElse(data.initialStock, data.stock),
                                   !.quantitySold = OrElse(data.quantitySold, 0)])

\* generateMockProducts(), cut down to one product
generateMockProducts ==
    << [id |-> 0, name |-> NameA, category |-> CatC, stock |-> 1, initialStock |-> MaxQty,
        initialStockDate |-> NoDate, quantitySold |-> 1, minStock |-> MinStockInput] >>

\* generateMockSales(), cut down to one sale; its fields are drawn at random
generateMockSales(mock) ==
    << [id |-> 0, product |-> mock.product, category |-> mock.category,
        date |-> mock.date, quantity |-> mock.quantity] >>

\* loadRegisterSales: the list it sets
loadRegisterSales(db, ok, mock) == IF ok THEN storedSales(db) ELSE generateMockSales(mock)

\* loadRegisterSales: the cache it leaves (the fallback does not clear it)
cacheAfterLoadSales(c, ok) == IF ok THEN EmptyCache ELSE c

\* loadProducts: the list it sets
loadProducts(db, ok) == IF ok THEN storedProducts(db) ELSE generateMockProducts

-----------------------------------------------------------------------------
(* useFirebaseData: recalculateProductQuantities                           *)

\* the object the map callback builds from the calculation
withCalculation(product, calculation) ==
    [product EXCEPT
        !.initialStock = OrElse(product.initialStock,
                                product.stock + OrElse(product.quantitySold, 0)),
        !.quantitySold = SumQuantity(calculation.validSales),
        !.stock = calculation.finalStock]

\* the same object with a stock that cannot go below zero
withCalculationClamped(product, calculation) ==
    [withCalculation(product, calculation) EXCEPT
        !.stock = IF calculation.finalStock < 0 THEN 0 ELSE calculation.finalStock]

recalculatedProductClamped(product, sales) ==
    withCalculationClamped(product, calculateStockFinal(product, sales))

\* the map callback of recalculateProductQuantities
recalculatedProduct(product, sales) ==
    withCalculation(product, calculateStockFinal(product, sales))

updatedProducts(prods, sales) == Map(prods, LAMBDA p : recalculatedProduct(p, sales))

\* the batch.update of the products that changed; an update of a missing document fails the batch
storeAfterRecalculation(db, prods, upd, ok) ==
    LET changed == {i \in DOMAIN prods :
                      \/ prods[i].quantitySold # upd[i].quantitySold
                      \/ prods[i].stock # upd[i].stock
                      \/ prods[i].initialStock # upd[i].initialStock}
        written(d) == {i \in changed : upd[i].id = d.id}
    IN  IF ok /\ \A i \in changed : upd[i].id \in {d.id : d \in db}
        THEN {IF written(d) = {} THEN d
              ELSE LET u == upd[SetMin(written(d))]
                   IN  [d EXCEPT !.quantitySold = u.quantitySold, !.stock = u.stock,
                                 !.initialStock = u.initialStock] : d \in db}
        ELSE db

\* setProducts(updatedProducts), then the batch
applyUpdatedProducts(prods, upd, ok) ==
    /\ products' = upd
    /\ dbProducts' = storeAfterRecalculation(dbProducts, prods, upd, ok)

\* recalculateProductQuantities() run from a closure over (prods, sales)
recalculateProductQuantities(prods, sales, ok) ==
    /\ cache' = EmptyCache
    /\ IF prods = <<>> THEN UNCHANGED <<products, dbProducts>>
       ELSE applyUpdatedProducts(prods, updatedProducts(prods, sales), ok)

\* an effect that runs after every render, as one without a dependency list does
EffectAfterEveryRender == TRUE

\* the effect runs when one of its dependencies changed since it last ran
EffectPending == effectDeps # <<Len(registerSales), Len(products)>>

\* the effects that depend on registerSales.length and products.length
RunEffects(ok) ==
    /\ ~loading
    /\ rowView # NULL
    /\ EffectPending
    /\ Failing(<<ok>>)
    /\ IF Len(products) > 0
       THEN recalculateProductQuantities(products, registerSales, ok)
       ELSE /\ cache' = IF effectDeps[1] # Len(registerSales) THEN EmptyCache ELSE cache
            /\ UNCHANGED <<products, dbProducts>>
    /\ effectDeps' = <<Len(registerSales), Len(products)>>
    /\ rowView' = NULL
    /\ UNCHANGED <<loading, registerSales, dbSales, timers, ops>>
    /\ UNCHANGED funVars

\* setTimeout(() => recalculateProductQuantities(), 100) fires with the closure it captured
FireTimer(ok) ==
    /\ ~loading
    /\ rowView # NULL
    /\ ~EffectPending
    /\ timers # <<>>
    /\ Failing(<<ok>>)
    /\ recalculateProductQuantities(Head(timers).products, Head(timers).registerSales, ok)
    /\ timers' = Tail(timers)
    /\ rowView' = NULL
    /\ UNCHANGED <<loading, registerSales, dbSales, effectDeps, ops>>
    /\ UNCHANGED funVars

\* an operation starts when the page is rendered, the effects have run and no timer is
\* pending: the timers are 100 ms long and fire before the user starts the next operation
Idle == ~loading /\ rowView # NULL /\ ~EffectPending /\ timers = <<>>

Closure == [products |-> products, registerSales |-> registerSales]

-----------------------------------------------------------------------------
(* useFirebaseData: batched writes                                         *)

BATCH_SIZE == 200

\* rows of 1..n in batches of BATCH_SIZE
NumBatches(n) == (n + BATCH_SIZE - 1) \div BATCH_SIZE
BatchOf(k) == (k - 1) \div BATCH_SIZE + 1

\* the rows whose batch was committed when the first `committed` batches were
CommittedRows(n, committed) == {k \in 1..n : BatchOf(k) <= committed}

\* n identifiers that nothing uses, as doc(collection) and Math.random() give
FreshIds(used, n) ==
    OrderSet({c \in 1..(Cardinality(used) + n) \ used :
                 Cardinality({d \in 1..(Cardinality(used) + n) \ used : d < c}) < n},
             LAMBDA a, b : a < b)

Rows(S, n) == UNION {[1..k -> S] : k \in 1..n}

-----------------------------------------------------------------------------
(* useFirebaseData: the operations on sales                                *)

SaleRow(id, sale) ==
    [id |-> id, product |-> sale.product, category |-> sale.category,
     date |-> sale.date, quantity |-> sale.quantity]

\* what the promise of an import resolves to; committed tells whether every batch of the
\* import was committed
imported(value, committed) == [kind |-> "imported", value |-> value, committed |-> committed]

addRegisterSales(sales, committed, okLoad, mock) ==
    LET n == Len(sales)
        ids == FreshIds(Ids(registerSales) \cup {d.id : d \in dbSales}, n)
        docs(rows) == {SaleRow(ids[k], sales[k]) : k \in rows}
        db == dbSales \cup docs(CommittedRows(n, committed))
    IN  /\ Idle
        /\ Counted
        /\ Failing(<<committed = NumBatches(n), okLoad>>)
        /\ Len(registerSales) + n <= MaxSales
        /\ Cardinality(dbSales) + n <= MaxSales
        /\ dbSales' = db
        /\ IF committed = NumBatches(n)
           THEN /\ registerSales' = loadRegisterSales(db, okLoad, mock)
                /\ cache' = EmptyCache
                /\ ret' = imported(TRUE, TRUE)
           ELSE /\ registerSales' = [k \in 1..n |-> SaleRow(ids[k], sales[k])] \o registerSales
                /\ cache' = cache
                /\ ret' = imported(TRUE, FALSE)
        /\ rowView' = NULL
        /\ UNCHANGED <<loading, products, dbProducts, effectDeps, timers>>
        /\ UNCHANGED <<called, argName, argCategory, argCatalog>>

SaleUpdates ==
    {[quantity |-> q] : q \in 1..MaxQty} \cup {[date |-> d] : d \in SaleDates}

updateSale(id, updates, ok) ==
    /\ Idle
    /\ Counted
    /\ Failing(<<ok>>)
    /\ id \in Ids(registerSales)
    /\ dbSales' = IF ok /\ id \in {d.id : d \in dbSales}
                  THEN {IF d.id = id THEN Spread(d, updates) ELSE d : d \in dbSales}
                  ELSE dbSales
    /\ registerSales' = Map(registerSales, LAMBDA s : IF s.id = id THEN Spread(s, updates) ELSE s)
    /\ rowView' = NULL
    /\ UNCHANGED <<loading, products, dbProducts, cache, effectDeps, timers>>
    /\ UNCHANGED funVars

\* the batches of an update commit up to the first one that fails or names a missing document
UpdatedRows(idSeq, db, committed) ==
    LET missing == {BatchOf(k) : k \in {j \in DOMAIN idSeq : idSeq[j] \notin {d.id : d \in db}}}
        limit == IF missing = {} THEN committed
                 ELSE IF SetMin(missing) - 1 < committed THEN SetMin(missing) - 1 ELSE committed
    IN  CommittedRows(Len(idSeq), limit)

categorizeSales(saleIds, category, committed, okLoad, mock) ==
    LET idSeq == OrderSet(saleIds, LAMBDA a, b : a < b)
        rows == UpdatedRows(idSeq, dbSales, committed)
        done == {idSeq[k] : k \in rows}
        db == {IF d.id \in done THEN [d EXCEPT !.category = category] ELSE d : d \in dbSales}
        local == Map(registerSales,
                     LAMBDA s : IF s.id \in saleIds THEN [s EXCEPT !.category = category] ELSE s)
    IN  /\ Idle
        /\ Counted
        /\ Failing(<<committed = NumBatches(Len(idSeq)), okLoad>>)
        /\ saleIds # {}
        /\ saleIds \subseteq Ids(registerSales)
        /\ dbSales' = db
        /\ IF rows = DOMAIN idSeq
           THEN /\ registerSales' = loadRegisterSales(db, okLoad, mock)
                /\ cache' = cacheAfterLoadSales(cache, okLoad)
           ELSE /\ registerSales' = local
                /\ cache' = cache
        /\ rowView' = NULL
        /\ UNCHANGED <<loading, products, dbProducts, effectDeps, timers>>
        /\ UNCHANGED funVars

deleteSales(saleIds, committed, okLoad, mock) ==
    LET idSeq == OrderSet(saleIds, LAMBDA a, b : a < b)
        rows == CommittedRows(Len(idSeq), committed)
        db == {d \in dbSales : d.id \notin {idSeq[k] : k \in rows}}
    IN  /\ Idle
        /\ Counted
        /\ Failing(<<committed = NumBatches(Len(idSeq)), okLoad>>)
        /\ saleIds # {}
        /\ saleIds \subseteq Ids(registerSales)
        /\ dbSales' = db
        /\ IF committed = NumBatches(Len(idSeq))
           THEN /\ registerSales' = loadRegisterSales(db, okLoad, mock)
                /\ cache' = cacheAfterLoadSales(cache, okLoad)
           ELSE /\ registerSales' = SelectSeq(registerSales, LAMBDA s : s.id \notin saleIds)
                /\ cache' = EmptyCache
        /\ rowView' = NULL
        /\ UNCHANGED <<loading, products, dbProducts, effectDeps, timers>>
        /\ UNCHANGED funVars

-----------------------------------------------------------------------------
(* useFirebaseData: the operations on products                             *)

\* the document addProduct and addProducts write
ProductDoc(id, product) ==
    [id |-> id, name |-> product.name, category |-> product.category,
     stock |-> product.stock,
     initialStock |-> OrElse(product.initialStock, product.stock),
     initialStockDate |-> product.initialStockDate,
     quantitySold |-> 0, minStock |-> product.minStock]

\* the product the fallback of addProduct and addProducts adds locally
LocalProduct(id, product) ==
    [id |-> id, name |-> product.name, category |-> product.category,
     stock |-> product.stock,
     initialStock |-> OrElse(product.initialStock, product.stock),
     initialStockDate |-> product.initialStockDate,
     quantitySold |-> 0, minStock |-> product.minStock]

UsedProductIds ==
    Ids(products) \cup {d.id : d \in dbProducts}
        \cup UNION {Ids(timers[t].products) : t \in DOMAIN timers}
        \cup {e.id : e \in cache}

\* the batches of a write commit up to the first one that fails or that holds an
\* undefined initialStockDate, which writeBatch.set rejects
WrittenRows(rows, committed) ==
    LET undefined == {BatchOf(k) : k \in {j \in DOMAIN rows : rows[j].initialStockDate = NoDate}}
        limit == IF undefined = {} THEN committed
                 ELSE IF SetMin(undefined) - 1 < committed THEN SetMin(undefined) - 1
                 ELSE committed
    IN  CommittedRows(Len(rows), limit)

addProducts(rows, committed, okLoad) ==
    LET n == Len(rows)
        ids == FreshIds(UsedProductIds, n)
        written == WrittenRows(rows, committed)
        db == dbProducts \cup {ProductDoc(ids[k], rows[k]) : k \in written}
    IN  /\ Idle
        /\ Counted
        /\ Failing(<<committed = NumBatches(n), okLoad>>)
        /\ Len(products) + n <= MaxProducts
        /\ Cardinality(dbProducts) + n <= MaxProducts
        /\ dbProducts' = db
        /\ IF written = DOMAIN rows
           THEN /\ products' = loadProducts(db, okLoad)
                /\ ret' = imported(TRUE, TRUE)
           ELSE /\ products' = products \o [k \in 1..n |-> LocalProduct(ids[k], rows[k])]
                /\ ret' = imported(TRUE, FALSE)
        /\ timers' = Append(timers, Closure)
        /\ rowView' = NULL
        /\ UNCHANGED <<loading, registerSales, dbSales, cache, effectDeps>>
        /\ UNCHANGED <<called, argName, argCategory, argCatalog>>

\* addDoc rejects an undefined field value
addProduct(product, ok, okLoad) ==
    LET id == FreshIds(UsedProductIds, 1)[1]
        stored == ok /\ product.initialStockDate # NoDate
        db == IF stored THEN dbProducts \cup {ProductDoc(id, product)} ELSE dbProducts
    IN  /\ Idle
        /\ Counted
        /\ Failing(<<ok, okLoad>>)
        /\ Len(products) < MaxProducts
        /\ Cardinality(dbProducts) < MaxProducts
        /\ dbProducts' = db
        /\ products' = IF stored THEN loadProducts(db, okLoad)
                       ELSE Append(products, LocalProduct(id, product))
        /\ timers' = Append(timers, Closure)
        /\ rowView' = NULL
        /\ UNCHANGED <<loading, registerSales, dbSales, cache, effectDeps>>
        /\ UNCHANGED funVars

\* the updates of handleSubmit (stock and initialStock together) and of the edit modal
ProductUpdates ==
    {[stock |-> k, initialStock |-> k] : k \in StockInputs}
        \cup {[initialStockDate |-> d] : d \in StockDates}

\* updateDoc rejects a missing document and an undefined field value
updateProduct(id, updates, ok) ==
    LET stored == /\ ok
                  /\ id \in {d.id : d \in dbProducts}
                  /\ "initialStockDate" \in DOMAIN updates
                  /\ updates.initialStockDate # NoDate
    IN  /\ Idle
        /\ Counted
        /\ Failing(<<ok>>)
        /\ id \in Ids(products)
        /\ dbProducts' = IF stored
                         THEN {IF d.id = id THEN Spread(d, updates) ELSE d : d \in dbProducts}
                         ELSE dbProducts
        /\ products' = Map(products, LAMBDA p : IF p.id = id THEN Spread(p, updates) ELSE p)
        /\ rowView' = NULL
        /\ UNCHANGED <<loading, registerSales, dbSales, cache, effectDeps, timers>>
        /\ UNCHANGED funVars

deleteProduct(id, ok) ==
    /\ Idle
    /\ Counted
    /\ Failing(<<ok>>)
    /\ id \in Ids(products)
    /\ dbProducts' = IF ok THEN {d \in dbProducts : d.id # id} ELSE dbProducts
    /\ products' = SelectSeq(products, LAMBDA p : p.id # id)
    /\ rowView' = NULL
    /\ UNCHANGED <<loading, registerSales, dbSales, cache, effectDeps, timers>>
    /\ UNCHANGED funVars

deleteProducts(productIds, committed) ==
    LET idSeq == OrderSet(productIds, LAMBDA a, b : a < b)
        rows == CommittedRows(Len(idSeq), committed)
    IN  /\ Idle
        /\ Counted
        /\ Failing(<<committed = NumBatches(Len(idSeq))>>)
        /\ productIds # {}
        /\ productIds \subseteq Ids(products)
        /\ dbProducts' = {d \in dbProducts : d.id \notin {idSeq[k] : k \in rows}}
        /\ products' = SelectSeq(products, LAMBDA p : p.id \notin productIds)
        /\ rowView' = NULL
        /\ UNCHANGED <<loading, registerSales, dbSales, cache, effectDeps, timers>>
        /\ UNCHANGED funVars

\* the mount effect
loadInitialData(okSales, okProducts, mock) ==
    /\ loading
    /\ Failing(<<okSales, okProducts>>)
    /\ registerSales' = loadRegisterSales(dbSales, okSales, mock)
    /\ products' = loadProducts(dbProducts, okProducts)
    /\ cache' = cacheAfterLoadSales(cache, okSales)
    /\ loading' = FALSE
    /\ rowView' = NULL
    /\ UNCHANGED <<dbSales, dbProducts, effectDeps, timers, ops>>
    /\ UNCHANGED funVars

refreshData(okSales, okProducts, mock) ==
    /\ Idle
    /\ Counted
    /\ Failing(<<okSales, okProducts>>)
    /\ registerSales' = loadRegisterSales(dbSales, okSales, mock)
    /\ products' = loadProducts(dbProducts, okProducts)
    /\ cache' = EmptyCache
    /\ rowView' = NULL
    /\ UNCHANGED <<loading, dbSales, dbProducts, effectDeps, timers>>
    /\ UNCHANGED funVars

-----------------------------------------------------------------------------
(* StockModule, displayed over the hook: every row calls calculateStockFinal *)

\* validSales.sort((a, b) => b.date.getTime() - a.date.getTime()), a stable sort
sortByDateDesc(sales) ==
    LET order == OrderSet(DOMAIN sales,
                    LAMBDA i, j : sales[i].date > sales[j].date
                                  \/ (sales[i].date = sales[j].date /\ i < j))
    IN  [k \in DOMAIN sales |-> sales[order[k]]]

\* ProductRow of each product in turn: calculateStockFinal(product, registerSales, true)
RECURSIVE cacheAfterRows(_, _, _)
cacheAfterRows(c, prods, sales) ==
    IF prods = <<>> THEN c
    ELSE cacheAfterRows(CacheAfter(c, Head(prods), sales), Tail(prods), sales)

\* the table row: calculateStockFinal(product, registerSales), then validSales.sort(...)[0]
firstOrNull(sorted) == IF sorted = <<>> THEN NULL ELSE sorted[1]

lastSaleShown(product, sales) ==
    firstOrNull(sortByDateDesc(calculateStockFinal(product, sales).validSales))

\* products.reduce((sum, p) => sum + p.stock, 0), and totalStock += finalStock
RECURSIVE SumOf(_)
SumOf(values) == IF values = <<>> THEN 0 ELSE Head(values) + SumOf(Tail(values))

\* stockStats of StockModule, a memo over [products]: it reads the stock field
stockStats(prods) ==
    [outOfStock |-> Cardinality({i \in DOMAIN prods : prods[i].stock = 0}),
     lowStock |-> Cardinality({i \in DOMAIN prods :
                                 prods[i].stock > 0 /\ prods[i].stock <= prods[i].minStock}),
     totalStock |-> SumOf([i \in DOMAIN prods |-> prods[i].stock])]

\* stockCalculationCache of the StockModule that keeps one: a memo over [products,
\* registerSales] holding calculateStockFinal(product, registerSales) for every product
stockCalculationCache(prods, sales) ==
    [i \in DOMAIN prods |-> calculateStockFinal(prods[i], sales)]

\* the products.forEach of its stockStats: if (finalStock === 0) outOfStock++
\* else if (finalStock <= product.minStock) lowStock++
countedStockStats(prods, finalStock) ==
    [outOfStock |-> Cardinality({i \in DOMAIN prods : finalStock[i] = 0}),
     lowStock |-> Cardinality({i \in DOMAIN prods :
                                 finalStock[i] # 0 /\ finalStock[i] <= prods[i].minStock}),
     totalStock |-> SumOf(finalStock)]

\* its stockStats: finalStock = stockCalculationCache.get(product.id)?.finalStock
cachedStockStats(prods, calculations) ==
    countedStockStats(prods, [i \in DOMAIN prods |-> calculations[i].finalStock])

\* one render of the page after the state changed; the handler that awaited an import has
\* taken its value by then
Render ==
    /\ ~loading
    /\ rowView = NULL
    /\ rowView' = [stale |-> \E e \in cache : StaleEntry(e, products, registerSales),
                   lastSale |-> Map(products, LAMBDA p : lastSaleShown(p, registerSales)),
                   stockStats |-> stockStats(products)]
    /\ cache' = cacheAfterRows(cache, products, registerSales)
    /\ ret' = NULL
    /\ UNCHANGED <<loading, registerSales, products, dbSales, dbProducts, effectDeps, timers,
                   failures, ops>>
    /\ UNCHANGED <<called, argName, argCategory, argCatalog>>

-----------------------------------------------------------------------------
(* The hook and its views as a state machine                               *)

FunIdle ==
    /\ called = "none"
    /\ argName = <<>>
    /\ argCategory = <<>>
    /\ argCatalog = <<>>
    /\ ret = NULL

HookInit ==
    /\ loading = TRUE
    /\ registerSales = <<>>
    /\ products = <<>>
    /\ dbSales = {}
    /\ dbProducts = {}
    /\ cache = EmptyCache
    /\ effectDeps = <<0, 0>>
    /\ timers = <<>>
    /\ rowView = NULL
    /\ failures = 0
    /\ ops = 0

Init == HookInit /\ FunIdle

Next ==
    \/ \E okS, okP \in BOOLEAN : \E mock \in MockDraws(okS) :
          loadInitialData(okS, okP, mock)
    \/ \E ok \in BOOLEAN : RunEffects(ok)
    \/ \E ok \in BOOLEAN : FireTimer(ok)
    \/ \E sales \in Rows(SaleInputs, MaxImport), okLoad \in BOOLEAN :
          \E mock \in MockDraws(okLoad), committed \in 0..NumBatches(Len(sales)) :
              addRegisterSales(sales, committed, okLoad, mock)
    \/ \E id \in Ids(registerSales), updates \in SaleUpdates, ok \in BOOLEAN :
          updateSale(id, updates, ok)
    \/ \E saleIds \in SUBSET Ids(registerSales), category \in SaleCategories,
          okLoad \in BOOLEAN :
          \E mock \in MockDraws(okLoad), committed \in 0..NumBatches(Cardinality(saleIds)) :
              categorizeSales(saleIds, category, committed, okLoad, mock)
    \/ \E saleIds \in SUBSET Ids(registerSales), okLoad \in BOOLEAN :
          \E mock \in MockDraws(okLoad), committed \in 0..NumBatches(Cardinality(saleIds)) :
              deleteSales(saleIds, committed, okLoad, mock)
    \/ \E product \in ProductInputs, ok, okLoad \in BOOLEAN : addProduct(product, ok, okLoad)
    \/ \E rows \in Rows(ProductInputs, MaxImport), okLoad \in BOOLEAN :
          \E committed \in 0..NumBatches(Len(rows)) : addProducts(rows, committed, okLoad)
    \/ \E id \in Ids(products), updates \in ProductUpdates, ok \in BOOLEAN :
          updateProduct(id, updates, ok)
    \/ \E id \in Ids(products), ok \in BOOLEAN : deleteProduct(id, ok)
    \/ \E productIds \in SUBSET Ids(products) :
          \E committed \in 0..NumBatches(Cardinality(productIds)) :
              deleteProducts(productIds, committed)
    \/ \E okS, okP \in BOOLEAN : \E mock \in MockDraws(okS) : refreshData(okS, okP, mock)
    \/ Render

Spec == Init /\ [][Next]_vars

-----------------------------------------------------------------------------
(* The hook under the operations that change the lengths and set timers    *)

\* the products of the form that are entered with a stock
StockedProductInputs == {p \in ProductInputs : p.stock = MaxQty}

SettleNext ==
    \/ \E okS, okP \in BOOLEAN : \E mock \in MockDraws(okS) :
          loadInitialData(okS, okP, mock)
    \/ \E ok \in BOOLEAN : RunEffects(ok)
    \/ \E ok \in BOOLEAN : FireTimer(ok)
    \/ \E sales \in Rows(MockInputs, MaxImport), okLoad \in BOOLEAN :
          \E mock \in MockDraws(okLoad), committed \in 0..NumBatches(Len(sales)) :
              addRegisterSales(sales, committed, okLoad, mock)
    \/ \E product \in StockedProductInputs, ok, okLoad \in BOOLEAN :
          addProduct(product, ok, okLoad)
    \/ Render

\* React renders after a state change, runs the effects whose dependencies changed and
\* fires the timers that were set; the mount effect runs once
SettleSpec ==
    /\ Init
    /\ [][SettleNext]_vars
    /\ WF_vars(Render)
    /\ WF_vars(\E ok \in BOOLEAN : RunEffects(ok))
    /\ WF_vars(\E ok \in BOOLEAN : FireTimer(ok))
    /\ WF_vars(\E okS, okP \in BOOLEAN : \E mock \in MockDraws(okS) :
                  loadInitialData(okS, okP, mock))

-----------------------------------------------------------------------------
(* normalizeProductName on typed names                                     *)

MaxNameLen == 6     \* characters of a typed name

NameAlphabet == {"A", " ", "-", "2", "0"}

HookIdle ==
    /\ loading = TRUE
    /\ registerSales = <<>>
    /\ products = <<>>
    /\ dbSales = {}
    /\ dbProducts = {}
    /\ cache = EmptyCache
    /\ effectDeps = <<0, 0>>
    /\ timers = <<>>
    /\ rowView = NULL
    /\ failures = 0
    /\ ops = 0

TypeChar(c) ==
    /\ called = "none"
    /\ Len(argName) < MaxNameLen
    /\ argName' = Append(argName, c)
    /\ UNCHANGED <<called, argCategory, argCatalog, ret>>
    /\ UNCHANGED hookVars

\* normalizeProductName(name)
Normalize ==
    /\ called = "none"
    /\ called' = "normalizeProductName"
    /\ ret' = normalizeProductName(argName)
    /\ UNCHANGED <<argName, argCategory, argCatalog>>
    /\ UNCHANGED hookVars

\* normalizeProductName of what normalizeProductName returned
NormalizeAgain ==
    /\ called = "normalizeProductName"
    /\ called' = "normalizeProductName twice"
    /\ argName' = ret
    /\ ret' = normalizeProductName(ret)
    /\ UNCHANGED <<argCategory, argCatalog>>
    /\ UNCHANGED hookVars

NormInit == HookIdle /\ FunIdle

NormNext ==
    \/ \E c \in NameAlphabet : TypeChar(c)
    \/ Normalize
    \/ NormalizeAgain

NormSpec == NormInit /\ [][NormNext]_vars

-----------------------------------------------------------------------------
(* findMatchingProduct on small catalogs                                   *)

MaxCatalog == 2     \* products of a catalog

CatalogNames ==
    { <<"A", "B", "C", " ", "D", "E", "F", " ", "2", "0">>,
      <<"a", "b", "c", " ", "d", "e", "f", " ", "x", "y", "z">>,
      <<"a", "b", "c", "d", " ", "d", "e", "f", "g">>,
      <<"x", "y", "z">> }
CatalogCategories == { <<"c">>, <<" ", "C">>, <<"d">> }

SoldNames ==
    { <<"a", "b", "c", " ", "d", "e", "f">>, <<"A", "B", "C">>, <<"x", "y", "z", "-">>,
      <<"d", "e", "f", "g", "s">>, <<"a", "b", "c", " ", "x", "y", "z">>, <<>> }
SoldCategories == { <<"C">>, <<"d">> }

AddToCatalog(name, category) ==
    /\ Len(argCatalog) < MaxCatalog
    /\ argCatalog' = Append(argCatalog,
                            [id |-> Len(argCatalog) + 1, name |-> name, category |-> category])
    /\ called' = "none"
    /\ ret' = NULL
    /\ UNCHANGED <<argName, argCategory>>
    /\ UNCHANGED hookVars

\* findMatchingProduct(saleName, saleCategory, products)
Match(saleName, saleCategory) ==
    /\ argName' = saleName
    /\ argCategory' = saleCategory
    /\ called' = "findMatchingProduct"
    /\ ret' = findMatchingProduct(saleName, saleCategory, argCatalog)
    /\ UNCHANGED argCatalog
    /\ UNCHANGED hookVars

\* the predicate of the third products.find, on the product at index i
FuzzyTier(saleName, saleCategory, i) ==
    /\ i \in DOMAIN argCatalog
    /\ argName' = saleName
    /\ argCategory' = saleCategory
    /\ called' = "fuzzy tier"
    /\ ret' = [kind |-> "tier", product |-> argCatalog[i],
               qualifies |-> FuzzyMatch(saleName, saleCategory, argCatalog[i])]
    /\ UNCHANGED argCatalog
    /\ UNCHANGED hookVars

MatchInit == HookIdle /\ FunIdle

MatchNext ==
    \/ \E name \in CatalogNames, category \in CatalogCategories : AddToCatalog(name, category)
    \/ \E saleName \in SoldNames, saleCategory \in SoldCategories : Match(saleName, saleCategory)
    \/ \E saleName \in SoldNames, saleCategory \in SoldCategories, i \in 1..MaxCatalog :
          FuzzyTier(saleName, saleCategory, i)

MatchSpec == MatchInit /\ [][MatchNext]_vars

-----------------------------------------------------------------------------
(* StockModule over given products and sales: the calculations of its rows, *)
(* of its statistics and of its export                                      *)

\* ProductRow: stockCalculation.hasInconsistentStock
hasStockWarning(product, sales) == calculateStockFinal(product, sales).hasInconsistentStock

\* dynamicStats.inconsistentStock
dynamicStatsInconsistentStock(prods, sales) == inconsistentStockCount(prods, sales)

\* the row handleExport writes for a product
exportedFrom(product, calculation) ==
    [InitialStock |-> OrElse(product.initialStock, 0),
     QuantitySold |-> SumQuantity(calculation.validSales),
     FinalStock |-> calculation.finalStock]

exportRow(product, sales) == exportedFrom(product, calculateStockFinal(product, sales))

\* what the callers hold after the calculation of row i returned
returned(i, calculation) ==
    [index |-> i,
     calculation |-> calculation,
     consumed |-> calculation.validSales,
     hasStockWarning |-> hasStockWarning(products[i], registerSales),
     updated |-> recalculatedProduct(products[i], registerSales),
     exported |-> exportRow(products[i], registerSales),
     inconsistentStock |-> dynamicStatsInconsistentStock(products, registerSales),
     again |-> NULL,
     cached |-> FALSE]

GiveProduct(product) ==
    /\ called = "none"
    /\ Len(products) < MaxProducts
    /\ products' = Append(products, LocalProduct(Len(products) + 1, product))
    /\ UNCHANGED <<loading, registerSales, dbSales, dbProducts, cache, effectDeps, timers,
                   rowView, failures, ops>>
    /\ UNCHANGED funVars

GiveSale(sale) ==
    /\ called = "none"
    /\ Len(registerSales) < MaxSales
    /\ registerSales' = Append(registerSales, SaleRow(Len(registerSales) + 1, sale))
    /\ UNCHANGED <<loading, products, dbSales, dbProducts, cache, effectDeps, timers,
                   rowView, failures, ops>>
    /\ UNCHANGED funVars

\* calculateStockFinal(product, registerSales, useCache) and what the callers derive from it
Calculate(i, useCache) ==
    /\ called = "none"
    /\ i \in DOMAIN products
    /\ called' = "calculateStockFinal"
    /\ ret' = returned(i, IF useCache THEN CachedResult(cache, products[i], registerSales)
                           ELSE calculateStockFinal(products[i], registerSales))
    /\ cache' = IF useCache THEN CacheAfter(cache, products[i], registerSales) ELSE cache
    /\ UNCHANGED <<loading, registerSales, products, dbSales, dbProducts, effectDeps, timers,
                   rowView, failures, ops>>
    /\ UNCHANGED <<argName, argCategory, argCatalog>>

\* the caller sorts the validSales it was returned, in place
SortValidSales ==
    /\ called = "calculateStockFinal"
    /\ called' = "validSales.sort"
    /\ ret' = [ret EXCEPT !.consumed = sortByDateDesc(ret.consumed)]
    /\ cache' = {IF e.id = products[ret.index].id
                 THEN [e EXCEPT !.result = HeldAfterCallerSort(e.result,
                                                sortByDateDesc(e.result.validSales))]
                 ELSE e : e \in cache}
    /\ UNCHANGED <<loading, registerSales, products, dbSales, dbProducts, effectDeps, timers,
                   rowView, failures, ops>>
    /\ UNCHANGED <<argName, argCategory, argCatalog>>

\* the same call once more, on the same product and the same sales
CalculateAgain(useCache) ==
    /\ called \in {"calculateStockFinal", "validSales.sort"}
    /\ called' = "calculateStockFinal twice"
    /\ LET product == products[ret.index]
       IN  /\ ret' = [ret EXCEPT
                        !.again = IF useCache THEN CachedResult(cache, product, registerSales)
                                  ELSE calculateStockFinal(product, registerSales),
                        !.cached = useCache /\ CacheHits(cache, product, registerSales) # {}]
           /\ cache' = IF useCache THEN CacheAfter(cache, product, registerSales) ELSE cache
    /\ UNCHANGED <<loading, registerSales, products, dbSales, dbProducts, effectDeps, timers,
                   rowView, failures, ops>>
    /\ UNCHANGED <<argName, argCategory, argCatalog>>

\* the statistics of the two StockModules: the one over the calculations of its cache,
\* the other over the products as recalculateProductQuantities hands them over
Statistics ==
    /\ called = "none"
    /\ products # <<>>
    /\ called' = "stockStats"
    /\ ret' = [kind |-> "stockStats",
               cached |-> cachedStockStats(products,
                                           stockCalculationCache(products, registerSales)),
               recalculated |-> stockStats(updatedProducts(products, registerSales))]
    /\ UNCHANGED hookVars
    /\ UNCHANGED <<argName, argCategory, argCatalog>>

StockInit == HookIdle /\ FunIdle

StockNext ==
    \/ \E product \in ProductInputs : GiveProduct(product)
    \/ \E sale \in SaleInputs : GiveSale(sale)
    \/ \E i \in DOMAIN products, useCache \in BOOLEAN : Calculate(i, useCache)
    \/ SortValidSales
    \/ \E useCache \in BOOLEAN : CalculateAgain(useCache)
    \/ Statistics

StockSpec == StockInit /\ [][StockNext]_vars

-----------------------------------------------------------------------------
(* StockModule: dynamicStats over the filtered products and sales, and the  *)
(* stockStats of the page that keeps a stockCalculationCache                *)

UnitPrice == 3          \* the price of every product
TotalInputs == {0, 7}   \* what the total column of a sale may hold

\* the total column of the sales, by sale id
TotalColumns == UNION {[ids -> TotalInputs] : ids \in SUBSET (1..MaxSales)}

\* the elements of a list that a filter keeps, in their order
Filtered(s, keep) ==
    LET upTo[n \in 0..Len(s)] ==
            IF n = 0 THEN <<>>
            ELSE IF n \in keep THEN Append(upTo[n - 1], s[n]) ELSE upTo[n - 1]
    IN  upTo[Len(s)]

\* the statistics over the calculations of the products
aggregatedFrom(prods, calculations) ==
    [totalProducts |-> Len(prods),
     totalStock |-> SumOf([i \in DOMAIN prods |-> calculations[i].finalStock]),
     totalSold |-> SumOf([i \in DOMAIN prods |-> SumQuantity(calculations[i].validSales)]),
     outOfStock |-> Cardinality({i \in DOMAIN prods : calculations[i].finalStock = 0}),
     lowStock |-> Cardinality({i \in DOMAIN prods :
                                 /\ calculations[i].finalStock > 0
                                 /\ calculations[i].finalStock <= prods[i].minStock}),
     inconsistentStock |-> Cardinality({i \in DOMAIN prods :
                                          calculations[i].hasInconsistentStock})]

\* calculateAggregatedStockStats(products, sales) of utils/calculateStockFinal
calculateAggregatedStockStats(prods, sales) ==
    aggregatedFrom(prods, stockCalculationCache(prods, sales))

\* filteredProducts.find(product => calculateStockFinal(product, registerSales)
\*     .validSales.some(validSale => validSale.id === sale.id)) finds a product
hasMatchingProduct(sale, filteredProducts, sales) ==
    \E i \in DOMAIN filteredProducts :
        sale.id \in Ids(calculateStockFinal(filteredProducts[i], sales).validSales)

\* a revenue recomputed from the quantity and the price
revenueFromPrice(filteredSales, filteredProducts, sales, total) ==
    SumOf([k \in DOMAIN filteredSales |->
              IF hasMatchingProduct(filteredSales[k], filteredProducts, sales)
              THEN filteredSales[k].quantity * UnitPrice ELSE 0])

\* filteredSales.reduce((sum, sale) => matchingProduct ? sum + sale.total : sum, 0);
\* total[id] is the total of the sale id
filteredRevenue(filteredSales, filteredProducts, sales, total) ==
    SumOf([k \in DOMAIN filteredSales |->
              IF hasMatchingProduct(filteredSales[k], filteredProducts, sales)
              THEN total[filteredSales[k].id] ELSE 0])

withRevenue(aggregatedStats, revenue) ==
    [totalProducts |-> aggregatedStats.totalProducts,
     totalStock |-> aggregatedStats.totalStock,
     totalSold |-> aggregatedStats.totalSold,
     totalRevenue |-> revenue,
     outOfStock |-> aggregatedStats.outOfStock,
     lowStock |-> aggregatedStats.lowStock,
     inconsistentStock |-> aggregatedStats.inconsistentStock]

dynamicStats(filteredProducts, filteredSales, sales, total) ==
    withRevenue(calculateAggregatedStockStats(filteredProducts, sales),
                filteredRevenue(filteredSales, filteredProducts, sales, total))

\* statistics whose count of products starts at 1
pageStockStatsFromOne(prods, calculations) ==
    [totalProducts |-> Len(prods) + 1,
     totalStock |-> cachedStockStats(prods, calculations).totalStock,
     totalValue |-> SumOf([i \in DOMAIN prods |-> calculations[i].finalStock * UnitPrice]),
     outOfStock |-> cachedStockStats(prods, calculations).outOfStock,
     lowStock |-> cachedStockStats(prods, calculations).lowStock]

\* stockStats of the page that keeps a stockCalculationCache, with its totalProducts and
\* its totalValue += finalStock * product.price
pageStockStats(prods, calculations) ==
    [totalProducts |-> Len(prods),
     totalStock |-> cachedStockStats(prods, calculations).totalStock,
     totalValue |-> SumOf([i \in DOMAIN prods |-> calculations[i].finalStock * UnitPrice]),
     outOfStock |-> cachedStockStats(prods, calculations).outOfStock,
     lowStock |-> cachedStockStats(prods, calculations).lowStock]

\* the two memos, for the products and the sales the filters of the page keep and the
\* totals the sales carry
DynamicStats(shownProducts, shownSales, total) ==
    /\ called = "none"
    /\ shownProducts \subseteq DOMAIN products
    /\ shownSales \subseteq DOMAIN registerSales
    /\ DOMAIN total = Ids(registerSales)
    /\ called' = "dynamicStats"
    /\ ret' = [kind |-> "dynamicStats",
               filteredProducts |-> Filtered(products, shownProducts),
               filteredSales |-> Filtered(registerSales, shownSales),
               total |-> total,
               stats |-> dynamicStats(Filtered(products, shownProducts),
                                      Filtered(registerSales, shownSales),
                                      registerSales, total),
               stockStats |-> pageStockStats(products,
                                             stockCalculationCache(products, registerSales))]
    /\ cache' = cacheAfterRows(cache, Filtered(products, shownProducts), registerSales)
    /\ UNCHANGED <<loading, registerSales, products, dbSales, dbProducts, effectDeps, timers,
                   rowView, failures, ops>>
    /\ UNCHANGED <<argName, argCategory, argCatalog>>

\* sales of MaxQty units, in either category, on the day before MaxDay and on MaxDay
StatsSaleInputs ==
    {sale \in SaleInputs :
        sale.quantity = MaxQty /\ sale.date \in {MaxDay * TicksPerDay - 1, MaxDay * TicksPerDay}}

StatsNext ==
    \/ \E product \in StockedProductInputs : GiveProduct(product)
    \/ \E sale \in StatsSaleInputs : GiveSale(sale)
    \/ \E shownProducts \in SUBSET (1..MaxProducts), shownSales \in SUBSET (1..MaxSales),
          total \in TotalColumns :
              DynamicStats(shownProducts, shownSales, total)

StatsSpec == StockInit /\ [][StatsNext]_vars

-----------------------------------------------------------------------------
(* StockModule: the product form, validateForm and handleSubmit            *)

NaN == [kind |-> "NaN"]
Number(n) == [kind |-> "number", value |-> n]

isNaN(v) == v.kind = "NaN"

\* v < 0, which is false of NaN
lessThanZero(v) == v.kind = "number" /\ v.value < 0

DigitValue(c) == CASE c = "0" -> 0 [] c = "1" -> 1 [] c = "2" -> 2 [] c = "5" -> 5

\* the leading white space parseInt and parseFloat skip
trimStart(s) ==
    LET idx == {i \in 1..Len(s) : ~IsSpace(s[i])}
    IN  IF idx = {} THEN <<>> ELSE SubSeq(s, SetMin(idx), Len(s))

\* the digits at the front of s from position i on
RECURSIVE leadingDigits(_, _)
leadingDigits(s, i) ==
    IF i > Len(s) \/ s[i] \notin Digits THEN <<>> ELSE <<s[i]>> \o leadingDigits(s, i + 1)

RECURSIVE decimalValue(_)
decimalValue(digits) ==
    IF digits = <<>> THEN 0
    ELSE 10 * decimalValue(SubSeq(digits, 1, Len(digits) - 1)) + DigitValue(digits[Len(digits)])

signedValue(negative, digits) ==
    IF digits = <<>> THEN NaN
    ELSE Number(IF negative THEN 0 - decimalValue(digits) ELSE decimalValue(digits))

\* an optional minus sign, then the longest run of digits; what follows is ignored
parseLeading(s) ==
    IF s # <<>> /\ s[1] = "-" THEN signedValue(TRUE, leadingDigits(s, 2))
    ELSE signedValue(FALSE, leadingDigits(s, 1))

\* parseInt(text), of a text that does not start with 0x
parseInt(text) == parseLeading(trimStart(text))

\* parseFloat(text), of a text without a decimal point or an exponent
parseFloat(text) == parseLeading(trimStart(text))

\* a test that only rejects what does not parse
unparsed(v) == isNaN(v)

\* isNaN(stock) || stock < 0
notPositiveOrZero(v) == isNaN(v) \/ lessThanZero(v)

\* validateForm: the keys of the errors it passes to setFormErrors
validateForm(formData) ==
    {key \in {"name", "category", "price", "stock", "minStock"} :
        \/ key = "name" /\ trim(formData.name) = <<>>
        \/ key = "category" /\ trim(formData.category) = <<>>
        \/ key = "price" /\ notPositiveOrZero(parseFloat(formData.price))
        \/ key = "stock" /\ notPositiveOrZero(parseInt(formData.stock))
        \/ key = "minStock" /\ notPositiveOrZero(parseInt(formData.minStock))}

productData(formData) ==
    [name |-> trim(formData.name),
     category |-> trim(formData.category),
     price |-> parseFloat(formData.price),
     stock |-> parseInt(formData.stock),
     initialStock |-> parseInt(formData.stock),
     minStock |-> parseInt(formData.minStock)]

\* the call handleSubmit makes once validateForm returned true
submitted(formData, editingProduct) ==
    IF editingProduct # NULL
    THEN [fn |-> "onUpdateProduct", id |-> editingProduct.id, updates |-> productData(formData)]
    ELSE [fn |-> "onAddProduct", product |-> productData(formData)]

submitOutcome(formData, editingProduct, formErrors) ==
    [kind |-> "handleSubmit", formData |-> formData, formErrors |-> formErrors,
     call |-> IF formErrors # {} THEN NULL ELSE submitted(formData, editingProduct)]

\* handleSubmit on what the form holds, adding a product or editing one
handleSubmit(formData, editingProduct) ==
    /\ called = "none"
    /\ called' = "handleSubmit"
    /\ ret' = submitOutcome(formData, editingProduct, validateForm(formData))
    /\ UNCHANGED hookVars
    /\ UNCHANGED <<argName, argCategory, argCatalog>>

FormNames == {<<>>, <<" ">>, NameA}
FormCategories == {<<>>, CatC}
FormPrices == {<<>>, <<"2">>, <<"-", "2">>}
FormStocks == {<<>>, <<"x">>, <<"-">>, <<"0">>, <<"2">>, <<" ", "2">>, <<"-", "1">>, <<"1", "x">>,
               <<"1", "2", "5">>}
FormMinStocks == {<<>>, <<"x">>, <<"1">>, <<"-", "1">>}

FormInputs ==
    [name : FormNames, category : FormCategories, price : FormPrices, stock : FormStocks,
     minStock : FormMinStocks]

FormNext ==
    \E formData \in FormInputs, editingProduct \in {NULL, [id |-> 1]} :
        handleSubmit(formData, editingProduct)

FormSpec == StockInit /\ [][FormNext]_vars

-----------------------------------------------------------------------------
(* useFirebaseData: autoSyncProductsFromSales, and salesMetrics of StockModule *)

\* a field that a document or a row does not have (no character is "undefined")
Undefined == <<"undefined">>

\* what calling .trim() or .toLowerCase() on undefined throws
TypeError == [kind |-> "TypeError"]

\* a sale without product or without category
Incomplete(sale) == sale.product = Undefined \/ sale.category = Undefined

\* `${sale.product.trim().toLowerCase()}|${sale.category.trim().toLowerCase()}`
productKey(sale) ==
    toLowerCase(trim(sale.product)) \o <<"|">> \o toLowerCase(trim(sale.category))

\* salesProductMap.set(productKey, {...}) of a key the map does not have
firstEntry(key, sale) ==
    [productKey |-> key,
     name |-> trim(sale.product),
     category |-> trim(sale.category),
     totalQuantitySold |-> sale.quantity,
     salesCount |-> 1]

\* the body of registerSales.forEach, on the entries in insertion order
withSale(entries, key, sale) ==
    IF \E k \in DOMAIN entries : entries[k].productKey = key
    THEN [k \in DOMAIN entries |->
            IF entries[k].productKey = key
            THEN [entries[k] EXCEPT !.totalQuantitySold = @ + sale.quantity,
                                    !.salesCount = @ + 1]
            ELSE entries[k]]
    ELSE Append(entries, firstEntry(key, sale))

\* one turn of registerSales.forEach: a sale without product or category throws, and
\* nothing runs after a throw
groupSale(map, sale) ==
    IF map = TypeError \/ Incomplete(sale) THEN TypeError
    ELSE [kind |-> "Map", entries |-> withSale(map.entries, productKey(sale), sale)]

\* step 1: the turns of registerSales.forEach for the sales lo..hi, in their order
RECURSIVE salesProductMapFrom(_, _, _, _)
salesProductMapFrom(sales, lo, hi, map) ==
    IF map = TypeError \/ lo > hi THEN map
    ELSE IF lo = hi THEN groupSale(map, sales[lo])
    ELSE salesProductMapFrom(sales, ((lo + hi) \div 2) + 1, hi,
                             salesProductMapFrom(sales, lo, (lo + hi) \div 2, map))

salesProductMap(sales) ==
    salesProductMapFrom(sales, 1, Len(sales), [kind |-> "Map", entries |-> <<>>])

\* a step 2 that takes every entry as missing from the stock
everyEntryMissing(entries, prods) == entries

\* step 2: the entries that match no product of the stock
missingProducts(entries, prods) ==
    SelectSeq(entries, LAMBDA data : findMatchingProduct(data.name, data.category, prods) = NULL)

planOf(entries, prods) ==
    [kind |-> "plan", unique |-> Len(entries), missing |-> missingProducts(entries, prods)]

planFrom(map, prods) == IF map = TypeError THEN TypeError ELSE planOf(map.entries, prods)

\* steps 1 and 2: the entries missing from the stock, or the TypeError of step 1
syncPlan(sales, prods) == planFrom(salesProductMap(sales), prods)

\* Math.max(a, b)
Max(a, b) == IF a >= b THEN a ELSE b

\* a tenth rounded down
floorTenth(n) == n \div 10

\* Math.ceil(n / 10)
ceilTenth(n) == (n + 9) \div 10

\* a new product that does not take the category of its sales
newProductUncategorised(id, data) ==
    [id |-> id, name |-> data.name, category |-> <<>>,
     stock |-> 0,
     initialStock |-> Max(data.totalQuantitySold, 10),
     initialStockDate |-> NoDate,
     quantitySold |-> data.totalQuantitySold,
     minStock |-> Max(ceilTenth(data.totalQuantitySold), 5)]

\* newProduct and the element pushed on createdProducts; neither has an initialStockDate
newProduct(id, data) ==
    [id |-> id, name |-> data.name, category |-> data.category,
     stock |-> 0,
     initialStock |-> Max(data.totalQuantitySold, 10),
     initialStockDate |-> NoDate,
     quantitySold |-> data.totalQuantitySold,
     minStock |-> Max(ceilTenth(data.totalQuantitySold), 5)]

NoSalesSummary == [text |-> "Aucune donnee de vente disponible pour la synchronisation."]

NothingToSyncSummary(unique) ==
    [text |-> "Tous les produits des ventes existent deja dans le stock. Aucune synchronisation necessaire.",
     unique |-> unique]

generateSyncSummary(createdProducts, totalSalesProducts) ==
    [text |-> "Synchronisation automatique terminee avec succes !",
     unique |-> totalSalesProducts,
     created |-> Len(createdProducts),
     existing |-> totalSalesProducts - Len(createdProducts)]

syncResult(created, summary) == [kind |-> "result", created |-> created, summary |-> summary]

\* throw new Error('Erreur lors de la synchronisation automatique des produits')
SyncError ==
    [kind |-> "Error", message |-> "Erreur lors de la synchronisation automatique des produits"]

\* handleAutoSyncProducts of StockModule: what it returns for an outcome of the hook
handleAutoSyncProducts(outcome) ==
    IF outcome.kind = "result" THEN outcome
    ELSE syncResult(<<>>, [text |-> "Erreur lors de la synchronisation"])

\* what a call leaves behind: its outcome, what handleAutoSyncProducts makes of it, the
\* documents its batches committed and the local products it started from
synced(outcome, written, before) ==
    [kind |-> "sync", outcome |-> outcome, shown |-> handleAutoSyncProducts(outcome),
     written |-> written, before |-> before]

\* a return, or a throw, before step 3
syncQuiet(outcome) ==
    /\ ret' = synced(outcome, {}, products)
    /\ UNCHANGED <<products, dbProducts, failures>>

\* step 3 that returns the list it pushed on whether or not every batch was committed
syncCommitReporting(plan, createdProducts, written, committed, okLoad) ==
    /\ committed \in 0..NumBatches(Len(createdProducts))
    /\ Failing(<<committed = NumBatches(Len(createdProducts)), okLoad>>)
    /\ committed < NumBatches(Len(createdProducts)) => okLoad
    /\ dbProducts' = dbProducts \cup written
    /\ products' = IF committed = NumBatches(Len(createdProducts))
                   THEN loadProducts(dbProducts \cup written, okLoad) ELSE products
    /\ ret' = synced(syncResult(createdProducts,
                                generateSyncSummary(createdProducts, plan.unique)),
                     written, products)

\* step 3: the batches are committed in turn and the first `committed` of them succeed;
\* after the last one loadProducts runs, and a batch that fails throws SyncError
syncCommit(plan, createdProducts, written, committed, okLoad) ==
    /\ committed \in 0..NumBatches(Len(createdProducts))
    /\ Failing(<<committed = NumBatches(Len(createdProducts)), okLoad>>)
    /\ committed < NumBatches(Len(createdProducts)) => okLoad
    /\ dbProducts' = dbProducts \cup written
    /\ IF committed = NumBatches(Len(createdProducts))
       THEN /\ products' = loadProducts(dbProducts \cup written, okLoad)
            /\ ret' = synced(syncResult(createdProducts,
                                        generateSyncSummary(createdProducts, plan.unique)),
                             written, products)
       ELSE /\ products' = products
            /\ ret' = synced(SyncError, written, products)

\* createdProducts: one new product per missing entry, pushed before its batch commits
createdProductsOf(ids, missing) ==
    [k \in DOMAIN missing |-> newProduct(ids[k], missing[k])]

\* the documents of the batches that were committed
syncBatches(plan, createdProducts, committed, okLoad) ==
    syncCommit(plan, createdProducts,
               {createdProducts[k] : k \in CommittedRows(Len(createdProducts), committed)},
               committed, okLoad)

syncWrites(plan, committed, okLoad) ==
    syncBatches(plan,
                createdProductsOf(FreshIds(UsedProductIds, Len(plan.missing)), plan.missing),
                committed, okLoad)

syncFrom(plan, committed, okLoad) ==
    IF plan = TypeError THEN committed = 0 /\ okLoad /\ syncQuiet(TypeError)
    ELSE IF plan.missing = <<>>
         THEN /\ committed = 0
              /\ okLoad
              /\ syncQuiet(syncResult(<<>>, NothingToSyncSummary(plan.unique)))
         ELSE syncWrites(plan, committed, okLoad)

autoSyncProductsFromSales(committed, okLoad) ==
    IF registerSales = <<>>
    THEN committed = 0 /\ okLoad /\ syncQuiet(syncResult(<<>>, NoSalesSummary))
    ELSE syncFrom(syncPlan(registerSales, products), committed, okLoad)

\* findMatchingProduct(sale.product, sale.category, products): its first two statements
\* call normalizeProductName(saleName) and saleCategory.toLowerCase()
matchOf(sale, prods) ==
    IF Incomplete(sale) THEN TypeError
    ELSE findMatchingProduct(sale.product, sale.category, prods)

\* a body that sets the entry of a product to its last sale
withLastMetric(map, id, sale) ==
    IF id \in DOMAIN map
    THEN [map EXCEPT ![id] = [quantitySold |-> sale.quantity, salesCount |-> 1]]
    ELSE map @@ (id :> [quantitySold |-> sale.quantity, salesCount |-> 1])

\* the body of filteredSales.forEach, on productSalesMap
withMetric(map, id, sale) ==
    IF id \in DOMAIN map
    THEN [map EXCEPT ![id] = [quantitySold |-> @.quantitySold + sale.quantity,
                              salesCount |-> @.salesCount + 1]]
    ELSE map @@ (id :> [quantitySold |-> sale.quantity, salesCount |-> 1])

\* what the match of a sale does to productSalesMap
withMatch(metrics, sale, match) ==
    IF match = TypeError THEN TypeError
    ELSE IF match = NULL THEN metrics
    ELSE [kind |-> "metrics", byProduct |-> withMetric(metrics.byProduct, match.id, sale)]

\* one turn of filteredSales.forEach; nothing runs after a throw
measureSale(metrics, sale, prods) ==
    IF metrics = TypeError THEN TypeError
    ELSE withMatch(metrics, sale, matchOf(sale, prods))

\* the turns of filteredSales.forEach for the sales lo..hi, in their order
RECURSIVE salesMetricsFrom(_, _, _, _, _)
salesMetricsFrom(sales, prods, lo, hi, metrics) ==
    IF metrics = TypeError \/ lo > hi THEN metrics
    ELSE IF lo = hi THEN measureSale(metrics, sales[lo], prods)
    ELSE salesMetricsFrom(sales, prods, ((lo + hi) \div 2) + 1, hi,
                          salesMetricsFrom(sales, prods, lo, (lo + hi) \div 2, metrics))

\* productSalesMap.forEach(metrics => { total += metrics.field })
RECURSIVE SumOver(_, _)
SumOver(f, ids) ==
    IF ids = {} THEN 0
    ELSE LET id == CHOOSE id \in ids : TRUE IN f[id] + SumOver(f, ids \ {id})

\* the totals over productSalesMap, and the object the memo returns
withTotals(metrics) ==
    IF metrics = TypeError THEN TypeError
    ELSE [kind |-> "metrics",
          byProduct |-> metrics.byProduct,
          totalUnitsSold |-> SumOver([id \in DOMAIN metrics.byProduct |->
                                         metrics.byProduct[id].quantitySold],
                                     DOMAIN metrics.byProduct),
          totalSalesCount |-> SumOver([id \in DOMAIN metrics.byProduct |->
                                          metrics.byProduct[id].salesCount],
                                      DOMAIN metrics.byProduct)]

salesMetrics(sales, prods) ==
    withTotals(salesMetricsFrom(sales, prods, 1, Len(sales),
                                [kind |-> "metrics", byProduct |-> <<>>]))

-----------------------------------------------------------------------------
(* autoSyncProductsFromSales and salesMetrics over given products and sales *)

MaxSyncSales == 2       \* sales given one by one
MaxSyncProducts == 1    \* products in the stock before the synchronization
BigQty == 58            \* the larger of the two quantities of a given sale

NameAHyphen == <<"A", "-", "B", "C">>
NameASpaced == <<"a", "b", "c", " ">>

SyncSaleInputs ==
    [product : {NameACaps, NameASpaced, NameAHyphen, Undefined},
     category : {CatC, Undefined},
     date : {MaxDay * TicksPerDay},
     quantity : {1, BigQty}]

\* one sale more than a batch holds, each of a product of its own: x0000, x0001, x0002, x0005, ...
BulkDigits == <<"0", "1", "2", "5">>
BulkName(k) ==
    <<"x", BulkDigits[((k \div 64) % 4) + 1], BulkDigits[((k \div 16) % 4) + 1],
      BulkDigits[((k \div 4) % 4) + 1], BulkDigits[(k % 4) + 1]>>
BulkSales ==
    [k \in 1..(BATCH_SIZE + 1) |->
        [id |-> k, product |-> BulkName(k), category |-> CatC,
         date |-> MaxDay * TicksPerDay, quantity |-> 1]]

SyncGiveProduct(product) ==
    /\ called = "none"
    /\ Len(products) < MaxSyncProducts
    /\ products' = Append(products, LocalProduct(Len(products) + 1, product))
    /\ dbProducts' = dbProducts \cup {ProductDoc(Len(products) + 1, product)}
    /\ UNCHANGED <<loading, registerSales, dbSales, cache, effectDeps, timers, rowView,
                   failures, ops>>
    /\ UNCHANGED funVars

SyncGiveSale(sale) ==
    /\ called = "none"
    /\ Len(registerSales) < MaxSyncSales
    /\ registerSales' = Append(registerSales, SaleRow(Len(registerSales) + 1, sale))
    /\ UNCHANGED <<loading, products, dbSales, dbProducts, cache, effectDeps, timers,
                   rowView, failures, ops>>
    /\ UNCHANGED funVars

\* an import of BATCH_SIZE + 1 sales was loaded
GiveBulkSales ==
    /\ called = "none"
    /\ registerSales = <<>>
    /\ registerSales' = BulkSales
    /\ UNCHANGED <<loading, products, dbSales, dbProducts, cache, effectDeps, timers,
                   rowView, failures, ops>>
    /\ UNCHANGED funVars

AutoSync(committed, okLoad) ==
    /\ called = "none"
    /\ called' = "autoSyncProductsFromSales"
    /\ autoSyncProductsFromSales(committed, okLoad)
    /\ UNCHANGED <<loading, registerSales, dbSales, cache, effectDeps, timers, rowView, ops>>
    /\ UNCHANGED <<argName, argCategory, argCatalog>>

\* a second call, on typed sales, after a call whose batches were all committed and whose
\* loadProducts gave the local list the products of the store
AutoSyncAgain(committed, okLoad) ==
    /\ called = "autoSyncProductsFromSales"
    /\ Len(registerSales) <= MaxSyncSales
    /\ ret.outcome.kind = "result"
    /\ ret.outcome.created # <<>>
    /\ products = loadProducts(dbProducts, TRUE)
    /\ called' = "autoSyncProductsFromSales twice"
    /\ autoSyncProductsFromSales(committed, okLoad)
    /\ UNCHANGED <<loading, registerSales, dbSales, cache, effectDeps, timers, rowView, ops>>
    /\ UNCHANGED <<argName, argCategory, argCatalog>>

\* the memo is computed for the products and sales given, and again for the products a
\* synchronization of typed sales left
SalesMetrics ==
    /\ \/ called = "none"
       \/ called = "autoSyncProductsFromSales" /\ Len(registerSales) <= MaxSyncSales
    /\ called' = "salesMetrics"
    /\ ret' = [kind |-> "salesMetrics", outcome |-> salesMetrics(registerSales, products)]
    /\ UNCHANGED hookVars
    /\ UNCHANGED <<argName, argCategory, argCatalog>>

SyncInit == HookIdle /\ FunIdle

SyncNext ==
    \/ \E product \in ProductInputs : SyncGiveProduct(product)
    \/ \E sale \in SyncSaleInputs : SyncGiveSale(sale)
    \/ GiveBulkSales
    \/ \E committed \in 0..2, okLoad \in BOOLEAN : AutoSync(committed, okLoad)
    \/ \E committed \in 0..2, okLoad \in BOOLEAN : AutoSyncAgain(committed, okLoad)
    \/ SalesMetrics

SyncSpec == SyncInit /\ [][SyncNext]_vars

-----------------------------------------------------------------------------
(* Properties of normalizeProductName and findMatchingProduct              *)

\* C8: normalizeProductName is idempotent: normalizing what it returned for any typed
\* name, also one with a noise token or a punctuation character between two words,
\* returns it unchanged.
NormalizeIdempotent ==
    called = "normalizeProductName twice" => ret = argName

Tier1(prods) == {i \in DOMAIN prods : ExactMatch(argName, argCategory, prods[i])}
Tier2(prods) == {i \in DOMAIN prods : PartialMatch(argName, argCategory, prods[i])}
Tier3(prods) == {i \in DOMAIN prods : FuzzyMatch(argName, argCategory, prods[i])}

\* C9: findMatchingProduct returns a product of the lowest-numbered tier that some
\* product of the catalog satisfies: an exact one if there is any, else a containment
\* one if there is any (also when an earlier product satisfies only the fuzzy tier),
\* else a fuzzy one.
MatchTierOrdering ==
    called = "findMatchingProduct" =>
        /\ Tier1(argCatalog) # {} =>
              ret # NULL /\ ExactMatch(argName, argCategory, ret)
        /\ (Tier1(argCatalog) = {} /\ Tier2(argCatalog) # {}) =>
              ret # NULL /\ PartialMatch(argName, argCategory, ret)
        /\ (Tier1(argCatalog) = {} /\ Tier2(argCatalog) = {} /\ Tier3(argCatalog) # {}) =>
              ret # NULL /\ FuzzyMatch(argName, argCategory, ret)

\* a containment match was returned past an earlier product that is only a fuzzy match
MatchTierOrderingWitness ==
    /\ called = "findMatchingProduct"
    /\ Len(argCatalog) = 2
    /\ Tier1(argCatalog) = {}
    /\ Tier2(argCatalog) = {2}
    /\ 1 \in Tier3(argCatalog)
    /\ ret = argCatalog[2]

\* C10: findMatchingProduct returns none exactly when no product of the catalog
\* satisfies any of the three tiers, and the lower-cased trimmed category of a product
\* it returns equals the lower-cased trimmed category of the sale.
MatchNoneAndCategory ==
    called = "findMatchingProduct" =>
        /\ ret = NULL <=> Tier1(argCatalog) \cup Tier2(argCatalog) \cup Tier3(argCatalog) = {}
        /\ ret # NULL => normalizeCategory(ret.category) = normalizeCategory(argCategory)

\* the product returned is written with another category string than the sale, and an
\* earlier product with the same normalized name but another category was passed over
MatchNoneAndCategoryWitness ==
    /\ called = "findMatchingProduct"
    /\ Len(argCatalog) = 2
    /\ normalizeProductName(argCatalog[1].name) = normalizeProductName(argName)
    /\ normalizeCategory(argCatalog[1].category) # normalizeCategory(argCategory)
    /\ ret = argCatalog[2]
    /\ ret.category # argCategory

-----------------------------------------------------------------------------
(* Properties of the reconciliation                                        *)

Calculated == called \in {"calculateStockFinal", "validSales.sort", "calculateStockFinal twice"}

InSeq(x, q) == \E k \in DOMAIN q : q[k] = x

\* the sale matches the product on its own
Matches(product, sale) == findMatchingProduct(sale.product, sale.category, <<product>>) # NULL

\* C1: for every product and every set of sales, finalStock plus the quantities of the
\* attributed sales equals the product's initialStock, in the result, in the product
\* recalculateProductQuantities writes back and in the exported row; finalStock is not
\* clamped, so sales exceeding initialStock leave the negative difference.
ReconcileConservation ==
    Calculated =>
        LET product == products[ret.index]
            calculation == ret.calculation
        IN  /\ calculation.finalStock + SumQuantity(calculation.validSales)
                  = product.initialStock
            /\ ret.updated.stock + ret.updated.quantitySold = product.initialStock
            /\ ret.exported.FinalStock + ret.exported.QuantitySold = ret.exported.InitialStock
            /\ ret.exported.InitialStock = product.initialStock
            /\ SumQuantity(calculation.validSales) > product.initialStock =>
                  /\ calculation.finalStock < 0
                  /\ ret.updated.stock = calculation.finalStock

\* the attributed quantities exceed initialStock and the difference is kept negative
ReconcileConservationWitness ==
    /\ called = "calculateStockFinal"
    /\ products[ret.index].initialStock > 0
    /\ SumQuantity(ret.calculation.validSales) > products[ret.index].initialStock
    /\ ret.calculation.finalStock < 0
    /\ ret.updated.stock < 0

\* C4: for a product with an initialStockDate, every matched sale is in exactly one of
\* validSales and ignoredSales: in validSales when its calendar day is on or after the
\* day of initialStockDate, whatever its time of day, and in ignoredSales otherwise.
DatePartition ==
    Calculated =>
        LET product == products[ret.index]
            calculation == ret.calculation
        IN  product.initialStockDate # NoDate =>
                /\ \A k \in DOMAIN registerSales :
                      LET sale == registerSales[k]
                      IN  IF Matches(product, sale)
                          THEN /\ InSeq(sale, calculation.validSales)
                                     <=> DayOf(sale.date) >= product.initialStockDate[1]
                               /\ InSeq(sale, calculation.ignoredSales)
                                     <=> ~InSeq(sale, calculation.validSales)
                          ELSE /\ ~InSeq(sale, calculation.validSales)
                               /\ ~InSeq(sale, calculation.ignoredSales)
                /\ Len(calculation.validSales) + Len(calculation.ignoredSales)
                      = Cardinality({k \in DOMAIN registerSales :
                                        Matches(product, registerSales[k])})

\* a sale later in the day of initialStockDate is attributed, and an earlier one ignored
DatePartitionWitness ==
    /\ called = "calculateStockFinal"
    /\ products[ret.index].initialStockDate # NoDate
    /\ \E k \in DOMAIN ret.calculation.validSales :
          /\ DayOf(ret.calculation.validSales[k].date) = products[ret.index].initialStockDate[1]
          /\ ret.calculation.validSales[k].date % TicksPerDay # 0
    /\ ret.calculation.ignoredSales # <<>>

\* C5: for a product without initialStockDate, validSales is the whole matched set, in
\* the order of the sales, and ignoredSales is empty, whatever the dates of the sales.
UndatedAttributesAll ==
    Calculated =>
        LET product == products[ret.index]
        IN  product.initialStockDate = NoDate =>
                /\ ret.calculation.validSales
                      = SelectSeq(registerSales, LAMBDA sale : Matches(product, sale))
                /\ ret.calculation.ignoredSales = <<>>

\* two matched sales of different days, one before the day used as initialStockDate
UndatedAttributesAllWitness ==
    /\ called = "calculateStockFinal"
    /\ products[ret.index].initialStockDate = NoDate
    /\ Len(ret.calculation.validSales) = 2
    /\ DayOf(ret.calculation.validSales[1].date) < MaxDay
    /\ DayOf(ret.calculation.validSales[2].date) = MaxDay

\* C6: hasInconsistentStock is true exactly when finalStock < 0 or ignoredSales is not
\* empty, and the inconsistentStock statistic is the number of products whose result
\* has the flag.
InconsistentFlag ==
    Calculated =>
        LET Flagged(j) ==
                LET c == calculateStockFinal(products[j], registerSales)
                IN  c.finalStock < 0 \/ c.ignoredSales # <<>>
        IN  /\ ret.calculation.hasInconsistentStock
                  <=> (ret.calculation.finalStock < 0 \/ ret.calculation.ignoredSales # <<>>)
            /\ ret.hasStockWarning <=> Flagged(ret.index)
            /\ ret.inconsistentStock = Cardinality({j \in DOMAIN products : Flagged(j)})

\* one of two products is flagged, and only for its ignored sales
InconsistentFlagWitness ==
    /\ called = "calculateStockFinal"
    /\ Len(products) = 2
    /\ ret.calculation.finalStock >= 0
    /\ ret.calculation.ignoredSales # <<>>
    /\ ret.calculation.hasInconsistentStock
    /\ ret.inconsistentStock = 1

-----------------------------------------------------------------------------
(* Properties of the fuzzy tier                                            *)

\* y occurs in x as a run of consecutive characters
Occurs(y, x) == \E k \in 0..(Len(x) - Len(y)) : SubSeq(x, k + 1, k + Len(y)) = y

\* the maximal runs of non-space characters of s longer than two characters, by position
TokenSpans(s) ==
    {span \in (1..Len(s)) \X (1..Len(s)) :
        /\ span[2] - span[1] + 1 > 2
        /\ \A k \in span[1]..span[2] : ~IsSpace(s[k])
        /\ span[1] = 1 \/ IsSpace(s[span[1] - 1])
        /\ span[2] = Len(s) \/ IsSpace(s[span[2] + 1])}

Token(s, span) == SubSeq(s, span[1], span[2])

\* the tokens of the sale that contain, or are contained by, some token of the product
MatchingTokens(sale, product) ==
    {a \in TokenSpans(sale) :
        \E b \in TokenSpans(product) :
            \/ Occurs(Token(sale, a), Token(product, b))
            \/ Occurs(Token(product, b), Token(sale, a))}

SameCategory(product) == normalizeCategory(product.category) = normalizeCategory(argCategory)

\* C11: in the fuzzy tier a product of the sale's category qualifies exactly when the
\* tokens of the normalized sale name (longer than two characters) that contain or are
\* contained by a token of the normalized product name number at least the ceiling of
\* 0.7 times the number of such sale tokens.
FuzzyThreshold ==
    (called = "fuzzy tier" /\ SameCategory(ret.product)) =>
        (ret.qualifies <=>
            10 * Cardinality(MatchingTokens(normalizeProductName(argName),
                                            normalizeProductName(ret.product.name)))
                >= 7 * Cardinality(TokenSpans(normalizeProductName(argName))))

\* one of the two tokens of the sale matches, which is below the threshold: no match
FuzzyThresholdWitness ==
    /\ called = "fuzzy tier"
    /\ SameCategory(ret.product)
    /\ Cardinality(TokenSpans(normalizeProductName(argName))) = 2
    /\ Cardinality(MatchingTokens(normalizeProductName(argName),
                                  normalizeProductName(ret.product.name))) = 1
    /\ ~ret.qualifies

-----------------------------------------------------------------------------
(* Properties of autoSyncProductsFromSales and salesMetrics                *)

Synced == called = "autoSyncProductsFromSales"

\* the sales that have a product name and a category
CompleteSales == SelectSeq(registerSales, LAMBDA sale : ~Incomplete(sale))

IncompleteSaleGiven == \E i \in DOMAIN registerSales : Incomplete(registerSales[i])

\* C12: the synchronization and the sales metrics never raise an error for a sale whose
\* category or product name is missing: such a sale matches nothing, and the metrics are
\* those of the remaining sales, which are still processed.
NoErrorOnIncompleteSale ==
    ((Synced \/ called = "salesMetrics") /\ IncompleteSaleGiven) =>
        /\ ret.outcome.kind # "TypeError"
        /\ called = "salesMetrics" => ret.outcome = salesMetrics(CompleteSales, products)

\* the call returned a result: it did not throw
SyncReturned == Synced /\ ret.outcome.kind = "result"

\* the products a result reports as created
Created == {ret.outcome.created[k] : k \in DOMAIN ret.outcome.created}

\* C13: whenever autoSyncProductsFromSales returns a result, every product of
\* result.created is a document of a batch whose commit succeeded, and is in the store.
CreatedWereCommitted ==
    SyncReturned => Created \subseteq ret.written /\ ret.written \subseteq dbProducts

\* a result whose created products took more than one batch, all of them committed
CreatedWereCommittedWitness ==
    /\ SyncReturned
    /\ Len(ret.outcome.created) > BATCH_SIZE
    /\ Created = ret.written

\* some batch was committed and a later one was not: fewer documents were written than
\* the stock lacked
PartlyCommitted ==
    /\ Synced
    /\ ret.written # {}
    /\ Cardinality(ret.written) < Len(syncPlan(registerSales, ret.before).missing)

\* C14: when the commit of a batch fails after earlier batches were committed, the outcome
\* given to the caller, by the hook and by handleAutoSyncProducts, is a result whose
\* created list holds exactly the products of the committed batches.
PartialSuccessReported ==
    PartlyCommitted =>
        /\ ret.outcome.kind = "result"
        /\ {ret.outcome.created[k] : k \in DOMAIN ret.outcome.created} = ret.written
        /\ {ret.shown.created[k] : k \in DOMAIN ret.shown.created} = ret.written

\* every sale has a product and a category, and matches a product of the stock the call
\* started from: so does every group, whose name and category are those of a sale, trimmed
EverySaleMatches ==
    \A i \in DOMAIN registerSales :
        /\ ~Incomplete(registerSales[i])
        /\ findMatchingProduct(trim(registerSales[i].product), trim(registerSales[i].category),
                               ret.before) # NULL

\* the call wrote nothing and left the products as they were
NothingDone == ret.written = {} /\ products = ret.before /\ ret.outcome.created = <<>>

\* C16: when every group of sales matches a product of the stock, autoSyncProductsFromSales
\* returns created = [] with the summary that no synchronization was needed, writes nothing
\* to the store and leaves the local products unchanged; with no sale at all it does the
\* same, with the summary that no sales data is available.
SyncNoOp ==
    (Synced /\ EverySaleMatches) =>
        /\ ret.outcome.kind = "result"
        /\ NothingDone
        /\ ret.outcome.summary.text =
              IF registerSales = <<>>
              THEN "Aucune donnee de vente disponible pour la synchronisation."
              ELSE "Tous les produits des ventes existent deja dans le stock. Aucune synchronisation necessaire."

\* two sales of one product of the stock: one group, nothing to create
SyncNoOpWitness ==
    /\ Synced
    /\ Len(registerSales) = 2
    /\ EverySaleMatches
    /\ ret.outcome.summary.unique = 1
    /\ NothingDone
    /\ dbProducts # {}

\* the pair the specification groups by
NormalizedPair(product) ==
    <<normalizeProductName(product.name), normalizeCategory(product.category)>>

\* C17: the synchronization creates at most one product per pair of normalized product
\* name and normalized category: no two created products have the same pair.
OneProductPerNormalizedPair ==
    SyncReturned =>
        \A p, q \in Created : NormalizedPair(p) = NormalizedPair(q) => p = q

\* T: the quantities of the sales of the group a created product was made for
GroupQuantity(product) ==
    SumQuantity(SelectSeq(registerSales,
        LAMBDA sale : productKey(sale) = productKey([product |-> product.name,
                                                     category |-> product.category])))

\* the least c with 10 * c >= n
CeilOfTenth(n) == CHOOSE c \in 0..n : 10 * c >= n /\ (c = 0 \/ 10 * (c - 1) < n)

\* C18: every product the synchronization creates has initialStock = max(T, 10), stock = 0
\* and minStock = max(ceil(T / 10), 5), T being the sum of the quantities of the sales of
\* its group; so initialStock >= 10, minStock >= 5 and initialStock >= T.
SyncEstimates ==
    SyncReturned =>
        \A p \in Created :
            /\ p.initialStock = Max(GroupQuantity(p), 10)
            /\ p.stock = 0
            /\ p.minStock = Max(CeilOfTenth(GroupQuantity(p)), 5)
            /\ p.initialStock >= 10 /\ p.minStock >= 5 /\ p.initialStock >= GroupQuantity(p)

\* a product created for a group of two sales of 59 units in all: minStock is 6
SyncEstimatesWitness ==
    /\ SyncReturned
    /\ \E p \in Created :
          /\ GroupQuantity(p) = BigQty + 1
          /\ p.initialStock = BigQty + 1
          /\ p.minStock = 6

\* the finalStock the reconciliation computes for product i against the current sales
FinalStock(i) == calculateStockFinal(products[i], registerSales).finalStock

\* C19: at every place that computes them, outOfStock counts exactly the products whose
\* final stock is 0 and lowStock exactly those with 0 < final stock <= minStock: a product
\* of negative final stock is in neither count, and none is in both.
StockLevelCounts ==
    called = "stockStats" =>
        \A stats \in {ret.cached, ret.recalculated} :
            /\ stats.outOfStock = Cardinality({i \in DOMAIN products : FinalStock(i) = 0})
            /\ stats.lowStock =
                  Cardinality({i \in DOMAIN products :
                                 0 < FinalStock(i) /\ FinalStock(i) <= products[i].minStock})

-----------------------------------------------------------------------------
(* Properties of the hook                                                  *)

\* C20: the totalStock the page reports is the sum, over all products, of the finalStock
\* the reconciliation computes for each product against the current sales, negative
\* values included.
TotalStockIsSumOfFinalStock ==
    Idle => rowView.stockStats.totalStock = SumOf([i \in DOMAIN products |-> FinalStock(i)])

\* a step of recalculateProductQuantities that reached setProducts(updatedProducts)
Recalculated ==
    \/ \E ok \in BOOLEAN : RunEffects(ok) /\ products # <<>>
    \/ \E ok \in BOOLEAN : FireTimer(ok) /\ Head(timers).products # <<>>

\* C24: after recalculateProductQuantities updates the local state, every product has
\* stock + quantitySold = initialStock on the fields it wrote back, also a product whose
\* initialStock was 0 or undefined before.
ConservationAfterRecalculation ==
    [][Recalculated =>
          \A i \in DOMAIN products' :
              products'[i].stock + products'[i].quantitySold = products'[i].initialStock]_vars

\* the sales a step of recalculateProductQuantities ran on: those of the render for the
\* effect, those of its closure for a timer
RecalculatedOn(sales) ==
    \/ \E ok \in BOOLEAN : RunEffects(ok) /\ products # <<>> /\ sales = registerSales
    \/ \E ok \in BOOLEAN :
          FireTimer(ok) /\ Head(timers).products # <<>> /\ sales = Head(timers).registerSales

\* C25: recalculateProductQuantities is a fixpoint: run again on the products it produced,
\* with the same sales, it changes no product's initialStock, quantitySold or stock, and
\* so has no store update to issue.
RecalculationIsFixpoint ==
    [][\A sales \in {registerSales} \cup {timers[t].registerSales : t \in DOMAIN timers} :
          RecalculatedOn(sales) => updatedProducts(products', sales) = products']_vars

ReloadedTimerFired ==
    /\ timers # <<>>
    /\ Ids(products) = {d.id : d \in dbProducts}
    /\ Ids(Head(timers).products) # Ids(products)
    /\ Ids(Head(timers).products) \subseteq Ids(products)
    /\ \E ok \in BOOLEAN : FireTimer(ok)

\* C27: after addProduct or addProducts stored the products and reloaded the list, the
\* recalculation its timer runs leaves the new products in the local list: it does not
\* put back the list captured before the reload.
NewProductsSurviveTimer ==
    [][ReloadedTimerFired => Ids(products) \subseteq Ids(products')]_vars

\* C28: the synchronisation is idempotent: called again after a call whose batches were
\* all committed and whose products were reloaded, it returns created = [], commits no
\* document and leaves the local products as they were.
SyncIdempotent ==
    called = "autoSyncProductsFromSales twice" =>
        /\ ret.outcome.kind = "result"
        /\ ret.outcome.created = <<>>
        /\ ret.written = {}
        /\ products = ret.before
        /\ products = loadProducts(dbProducts, TRUE)

\* the second call returned, on sales of two names
SyncIdempotentWitness ==
    /\ called = "autoSyncProductsFromSales twice"
    /\ ret.outcome.kind = "result"
    /\ Len(products) >= 2
    /\ \E i, j \in DOMAIN registerSales : registerSales[i].product # registerSales[j].product

\* two normalized names share content: neither is empty, and one contains the other or
\* a word of more than 2 characters of one contains, or is contained in, one of the other
namesShareContent(saleName, productName) ==
    /\ saleName # <<>>
    /\ productName # <<>>
    /\ \/ includesEitherWay(productName, saleName)
       \/ \E i \in DOMAIN longWords(saleName), k \in DOMAIN longWords(productName) :
              includesEitherWay(longWords(productName)[k], longWords(saleName)[i])

\* C29: findMatchingProduct returns a product only when the normalized names share
\* content: for a sale whose normalized name is empty or has no word of more than 2
\* characters, and for a product whose normalized name is empty, an equal category alone
\* gives no match.
MatchNeedsSharedContent ==
    (called = "findMatchingProduct" /\ ret # NULL) =>
        namesShareContent(normalizeProductName(argName), normalizeProductName(ret.name))

\* the sales findMatchingProduct gives a product for, and those it gives product id for
MatchedRows ==
    SelectSeq(registerSales,
              LAMBDA sale : findMatchingProduct(sale.product, sale.category, products) # NULL)

CreditedTo(id) ==
    SelectSeq(MatchedRows,
              LAMBDA sale : findMatchingProduct(sale.product, sale.category, products).id = id)

\* C30: in salesMetrics every sale is credited to at most one product and an unmatched
\* sale to none: the entry of a product holds the quantity and the number of the sales
\* matched to it; totalUnitsSold is the sum of quantity over the matched sales,
\* totalSalesCount their number, and the per-product quantitySold sum to totalUnitsSold.
SalesMetricsTotals ==
    (called = "salesMetrics" /\ ret.outcome.kind = "metrics") =>
        LET productSalesMap == ret.outcome.byProduct
        IN  /\ ret.outcome.totalUnitsSold = SumQuantity(MatchedRows)
            /\ ret.outcome.totalSalesCount = Len(MatchedRows)
            /\ SumOver([id \in DOMAIN productSalesMap |-> productSalesMap[id].quantitySold],
                       DOMAIN productSalesMap) = ret.outcome.totalUnitsSold
            /\ DOMAIN productSalesMap \subseteq Ids(products)
            /\ \A id \in Ids(products) :
                   IF CreditedTo(id) = <<>> THEN id \notin DOMAIN productSalesMap
                   ELSE /\ id \in DOMAIN productSalesMap
                        /\ productSalesMap[id].quantitySold = SumQuantity(CreditedTo(id))
                        /\ productSalesMap[id].salesCount = Len(CreditedTo(id))

\* two sales went to one of two products that both match them
SalesMetricsTotalsWitness ==
    /\ called = "salesMetrics"
    /\ ret.outcome.kind = "metrics"
    /\ Len(products) >= 2
    /\ ret.outcome.totalSalesCount = 2
    /\ Cardinality(DOMAIN ret.outcome.byProduct) = 1

\* the filtered sales that some filtered product matches and that fall on or after the
\* day of its initialStockDate
AttributedSales ==
    {sale \in {ret.filteredSales[k] : k \in DOMAIN ret.filteredSales} :
        \E i \in DOMAIN ret.filteredProducts :
            /\ findMatchingProduct(sale.product, sale.category, <<ret.filteredProducts[i]>>) # NULL
            /\ Attributable(ret.filteredProducts[i], sale)}

\* C21: totalRevenue of dynamicStats is the sum of the total field over exactly the
\* filtered sales attributed to at least one filtered product, each counted once; it is
\* not recomputed from quantity and price.
RevenueIsSumOfTotals ==
    called = "dynamicStats" =>
        ret.stats.totalRevenue =
            SumOver([id \in Ids(registerSales) |-> ret.total[id]],
                    {sale.id : sale \in AttributedSales})

\* a sale of total 7 attributed to both filtered products was counted once, and a
\* filtered sale of total 7 attributed to none was left out
RevenueIsSumOfTotalsWitness ==
    /\ called = "dynamicStats"
    /\ ret.stats.totalRevenue = 7
    /\ Len(ret.filteredProducts) = 2
    /\ Len(ret.filteredSales) = 2
    /\ \A id \in Ids(registerSales) : ret.total[id] = 7
    /\ \E sale \in AttributedSales :
           \A i \in DOMAIN ret.filteredProducts :
              sale.id \in Ids(calculateStockFinal(ret.filteredProducts[i], registerSales).validSales)

\* C22: with no product and no sale every statistic of dynamicStats and of stockStats
\* is 0, and both memos return.
EmptyStatsAreZero ==
    (called = "dynamicStats" /\ products = <<>> /\ registerSales = <<>>) =>
        /\ ret.stats = [totalProducts |-> 0, totalStock |-> 0, totalSold |-> 0,
                        totalRevenue |-> 0, outOfStock |-> 0, lowStock |-> 0,
                        inconsistentStock |-> 0]
        /\ ret.stockStats = [totalProducts |-> 0, totalStock |-> 0, totalValue |-> 0,
                             outOfStock |-> 0, lowStock |-> 0]

EmptyStatsAreZeroWitness ==
    /\ called = "dynamicStats"
    /\ products = <<>>
    /\ registerSales = <<>>
    /\ ret.stats.totalProducts = 0

\* C23: handleSubmit calls neither onAddProduct nor onUpdateProduct, and leaves an error
\* on the field, when the name or the category of the form is blank or when its stock or
\* its minStock parses to NaN or to a negative number; the product of a call it does make
\* has a name, a category and a stock, initialStock and minStock of 0 or more.
InvalidFormNotSubmitted ==
    called = "handleSubmit" =>
        /\ trim(ret.formData.name) = <<>> => (ret.call = NULL /\ "name" \in ret.formErrors)
        /\ trim(ret.formData.category) = <<>> =>
              (ret.call = NULL /\ "category" \in ret.formErrors)
        /\ \A key \in {"stock", "minStock"} :
              (isNaN(parseInt(ret.formData[key])) \/ lessThanZero(parseInt(ret.formData[key])))
                  => (ret.call = NULL /\ key \in ret.formErrors)
        /\ ret.call # NULL =>
              LET product == IF ret.call.fn = "onAddProduct" THEN ret.call.product
                             ELSE ret.call.updates
              IN  /\ product.name # <<>>
                  /\ product.category # <<>>
                  /\ \A key \in {"stock", "initialStock", "minStock"} :
                         product[key].kind = "number" /\ product[key].value >= 0

\* a form with a negative stock was turned down, and so was one with a negative minStock
InvalidFormNotSubmittedWitness ==
    /\ called = "handleSubmit"
    /\ ret.call = NULL
    /\ ret.formErrors = {"stock"}
    /\ lessThanZero(parseInt(ret.formData.stock))

\* C15: addRegisterSales and addProducts resolve to true only when every batch of the
\* import was committed to the store: after a commit that failed, the value differs from
\* true.
ImportSuccessMeansCommitted ==
    (ret.kind = "imported" /\ ret.value = TRUE) => ret.committed

\* C2: once the operations of the hook are over and the pending effects and timers
\* have run, every local product has stock equal to the finalStock reconciliation
\* computes from the local sales and the product's initialStock and initialStockDate,
\* and quantitySold equal to the sum of its attributed quantities.
DerivedFieldsAtQuiescence ==
    Idle =>
        \A i \in DOMAIN products :
            LET calculation == calculateStockFinal(products[i], registerSales)
            IN  /\ products[i].stock = calculation.finalStock
                /\ products[i].quantitySold = SumQuantity(calculation.validSales)

\* C3: every operation that changes the local sales or the initialStock or
\* initialStockDate of a product clears the product-sales cache before a later stock
\* calculation reads it: no calculation finds an entry filled from older inputs.
CacheClearedBeforeRead ==
    rowView # NULL => ~rowView.stale

=============================================================================
